---- MODULE Spec2Model ----
(***************************************************************************)
(* Model of the money-movement and tax-payment logic of repotown:          *)
(*   - banking: domain.Account, domain.Transaction, accountService         *)
(*   - treasury: domain.TaxPayment, taxPaymentService, filing TaxPaid,     *)
(*     domain.TaxFiling, taxFilingService, domain.TaxRate                  *)
(* Repositories are interfaces; every repository call either succeeds      *)
(* against the stored records or returns an error (the shipped Postgres    *)
(* repositories are stubs that always return an error).                    *)
(***************************************************************************)
EXTENDS Integers, FiniteSets, Sequences, TLC

VARIABLES
    acct,      \* banking: one in-memory domain.Account (entity-level calls)
    acctRet,   \* banking: the last entity call and the error it returned
    allOk,     \* banking: every entity call so far returned nil
    accounts,  \* banking: rows of the account repository, by ID
    transactions, \* banking: rows of the transaction repository
    ret,       \* banking: what the last AccountService call returned
    accountDetails, \* banking: the Name and ClosedAt columns of the account rows, by ID
    payments,  \* treasury: rows of the tax payment repository, by ID
    filings,   \* treasury: rows of the tax filing repository, by ID
    payRet,    \* treasury: what the last TaxPaymentService call returned
    taxPayment,    \* treasury: one in-memory domain.TaxPayment (entity-level calls)
    taxPaymentRet, \* treasury: the last TaxPayment call and the error it returned
    heap,          \* treasury: the backing arrays of the slices of in-memory filings
    mem,           \* treasury: in-memory domain.TaxFiling values, by the name that holds them
    memRet,        \* treasury: the last TaxFiling call, its receiver and its error
    taxRate,       \* treasury: one in-memory domain.TaxRate
    taxRateRet,    \* treasury: the last TaxRate call, its argument and what it returned
    transaction,   \* banking: one in-memory domain.Transaction
    transactionRet, \* banking: the last Transaction call
    taxRates,      \* treasury: rows of the tax rate repository, by ID
    taxRatesRet,   \* treasury: what the last TaxRateService call returned
    taxpayer,      \* treasury: one in-memory domain.Taxpayer
    taxpayerRet,   \* treasury: the last Taxpayer call, its argument and what it returned
    granted,       \* history: the codes given at creation or added, and not removed since
    deposits,      \* banking: the AccountService.Deposit call each client has under way
    calls,         \* banking: the AccountService call each client has under way
    ledger,        \* banking: rows of the transaction repository, by ID
    ledgerRet,     \* banking: what the last TransactionService call returned
    filingCalls,   \* treasury: the TaxFilingService call each client has under way
    garages,       \* parking: rows of the garage repository, by ID
    sessions,      \* parking: rows of the parking session repository, by ID
    parkRet,       \* parking: what the last parking request returned
    tally          \* history: per account, the amounts of the Deposit and Withdraw calls persisted

vars == <<acct, acctRet, allOk, accounts, transactions, ret, accountDetails, payments, filings, payRet,
          taxPayment, taxPaymentRet, heap, mem, memRet, taxRate, taxRateRet,
          transaction, transactionRet, taxRates, taxRatesRet,
          taxpayer, taxpayerRet, granted, deposits, calls, tally,
          ledger, ledgerRet, filingCalls, garages, sessions, parkRet>>

entityVars  == <<acct, acctRet, allOk>>
bankVars    == <<accounts, transactions, ret, accountDetails>>
payVars     == <<payments, filings, payRet>>
taxPaymentVars == <<taxPayment, taxPaymentRet>>
memVars     == <<heap, mem, memRet>>
taxRateVars == <<taxRate, taxRateRet>>
transactionVars == <<transaction, transactionRet>>
rateStoreVars == <<taxRates, taxRatesRet>>
taxpayerVars == <<taxpayer, taxpayerRet, granted>>
tellerVars  == <<calls, tally>>
ledgerVars  == <<ledger, ledgerRet>>
parkVars    == <<garages, sessions, parkRet>>
furtherVars == <<tellerVars, ledgerVars, filingCalls, parkVars>>
laterVars   == <<transactionVars, rateStoreVars, taxpayerVars, deposits, furtherVars>>
earlierVars == <<entityVars, bankVars, payVars, taxPaymentVars, memVars, taxRateVars>>
domainVars  == <<taxPaymentVars, memVars, taxRateVars, laterVars>>

(***************************************************************************)
(* Bounds of the model                                                     *)
(***************************************************************************)
MaxAmount  == 2   \* largest amount passed to a method of one Account
NegAmount  == 1   \* callers also pass amounts down to -NegAmount
MaxBalance == 3   \* the balance of one Account stays within -MaxBalance..MaxBalance
MaxRequest == 1   \* largest amount of a request to accountService
MaxStored  == 2   \* stored balances stay within -NegAmount..MaxStored
MaxPayment == 2   \* largest amount of a tax payment
MaxTaxPaid == 3   \* a filing's TaxPaid stays within 0..MaxTaxPaid
MaxNotes   == 2   \* notes of one TaxPayment hold at most MaxNotes appended reasons
MaxItems   == 1   \* a stored filing holds at most MaxItems deductions and credits in all
MaxSlice   == 4   \* an in-memory filing holds at most MaxSlice deductions and credits in all
MaxBracket == 3   \* MinAmount and MaxAmount of a TaxRate are within 0..MaxBracket
MaxTaxable == 5   \* CalculateTax is asked about amounts within -NegAmount..MaxTaxable
MaxSpaces  == 2   \* a garage has at most MaxSpaces parking spaces
MaxMoved   == 3   \* the persisted deposits of an account add up to at most MaxMoved, and so do its withdrawals

Amounts        == (0 - NegAmount)..MaxAmount
RequestAmounts == (0 - NegAmount)..MaxRequest
PaymentAmounts == 0..MaxPayment
AccountIDs     == {"A", "B"}
PaymentIDs     == {"P1", "P2"}
FilingIDs      == {"F1"}
AccountNames   == {"main", "spare"}

\* a time.Time: NoTime for a nil *time.Time, Times for the values of time.Now()
NoTime == 0
Times == 1..2

InAccountRange(b) == (0 - MaxBalance) <= b /\ b <= MaxBalance

InBalanceRange(b) == (0 - NegAmount) <= b /\ b <= MaxStored

(***************************************************************************)
(* Errors                                                                  *)
(***************************************************************************)
Nil                     == "nil"
ErrInsufficientFunds    == "insufficient funds"
ErrAccountClosed        == "account is closed"
ErrGetByID              == "GetByID failed"
ErrCreate               == "Create failed"
ErrUpdate               == "Update failed"
ErrTxRepoNotImplemented == "transaction repository not implemented"

(***************************************************************************)
(* domain.Account                                                          *)
(***************************************************************************)
AccountStatusActive   == "active"
AccountStatusInactive == "inactive"
AccountStatusClosed   == "closed"

NewAccount == [Status |-> AccountStatusActive, Balance |-> 0]

IsActiveExceptInactive(a) == a.Status # AccountStatusInactive

IsActive(a) == a.Status = AccountStatusActive

Close(a) == [a EXCEPT !.Status = AccountStatusClosed]

DepositUnguarded(a, amount) ==
    [acc |-> [a EXCEPT !.Balance = @ + amount], err |-> Nil]

Deposit(a, amount) ==
    IF ~IsActive(a)
    THEN [acc |-> a, err |-> ErrAccountClosed]
    ELSE [acc |-> [a EXCEPT !.Balance = @ + amount], err |-> Nil]

WithdrawOffByOne(a, amount) ==
    IF ~IsActive(a)
    THEN [acc |-> a, err |-> ErrAccountClosed]
    ELSE IF a.Balance <= amount
         THEN [acc |-> a, err |-> ErrInsufficientFunds]
         ELSE [acc |-> [a EXCEPT !.Balance = @ - amount], err |-> Nil]

Withdraw(a, amount) ==
    IF ~IsActive(a)
    THEN [acc |-> a, err |-> ErrAccountClosed]
    ELSE IF a.Balance < amount
         THEN [acc |-> a, err |-> ErrInsufficientFunds]
         ELSE [acc |-> [a EXCEPT !.Balance = @ - amount], err |-> Nil]

(***************************************************************************)
(* domain.Transaction                                                      *)
(***************************************************************************)
TransactionTypeDeposit     == "deposit"
TransactionTypeWithdrawal  == "withdrawal"
TransactionTypeTransfer    == "transfer"
TransactionStatusPending   == "pending"
TransactionStatusCompleted == "completed"
NoAccount                  == "none"

NewTransaction(txType, accountID, amount) ==
    [Type            |-> txType,
     Status          |-> TransactionStatusPending,
     AccountID       |-> accountID,
     SourceAccountID |-> NoAccount,
     TargetAccountID |-> NoAccount,
     Amount          |-> amount]

NewTransferTransactionSwapped(sourceAccountID, targetAccountID, amount) ==
    [NewTransaction(TransactionTypeTransfer, sourceAccountID, amount)
        EXCEPT !.SourceAccountID = targetAccountID,
               !.TargetAccountID = sourceAccountID]

NewTransferTransaction(sourceAccountID, targetAccountID, amount) ==
    [NewTransaction(TransactionTypeTransfer, sourceAccountID, amount)
        EXCEPT !.SourceAccountID = sourceAccountID,
               !.TargetAccountID = targetAccountID]

Complete(t) == [t EXCEPT !.Status = TransactionStatusCompleted]

(***************************************************************************)
(* Entity-level calls on one Account                                       *)
(***************************************************************************)
InitAccount ==
    /\ acct \in {NewAccount, [NewAccount EXCEPT !.Status = AccountStatusInactive]}
    /\ acctRet = [op |-> "NewAccount", amount |-> 0, err |-> Nil]
    /\ allOk = TRUE

CallDeposit(amount) ==
    LET r == Deposit(acct, amount) IN
    /\ InAccountRange(r.acc.Balance)
    /\ acct' = r.acc
    /\ acctRet' = [op |-> "Deposit", amount |-> amount, err |-> r.err]
    /\ allOk' = (allOk /\ r.err = Nil)
    /\ UNCHANGED <<bankVars, payVars, domainVars>>

CallWithdraw(amount) ==
    LET r == Withdraw(acct, amount) IN
    /\ InAccountRange(r.acc.Balance)
    /\ acct' = r.acc
    /\ acctRet' = [op |-> "Withdraw", amount |-> amount, err |-> r.err]
    /\ allOk' = (allOk /\ r.err = Nil)
    /\ UNCHANGED <<bankVars, payVars, domainVars>>

CallClose ==
    /\ acct' = Close(acct)
    /\ acctRet' = [op |-> "Close", amount |-> 0, err |-> Nil]
    /\ UNCHANGED <<allOk, bankVars, payVars, domainVars>>

NextAccount ==
    \/ \E amount \in Amounts : CallDeposit(amount)
    \/ \E amount \in Amounts : CallWithdraw(amount)
    \/ CallClose

(***************************************************************************)
(* accountService over the account repository                              *)
(* fail = 0: every repository call of the request succeeds;                *)
(* fail = n: the n-th repository call of the request returns an error.     *)
(***************************************************************************)
NoTransactions == {}

\* the Name and ClosedAt of NewAccount
NewAccountDetails(name) == [Name |-> name, ClosedAt |-> NoTime]

Result(store, err, txs) == [accounts |-> store, err |-> err, txs |-> txs]

\* accountRepo.GetByID: an error for a missing row or a failing call
GetByIDFails(store, id, failed) == failed \/ id \notin DOMAIN store

\* accountRepo.Update writes the whole record over the stored row
Update(store, id, account) == [store EXCEPT ![id] = account]

CreateAccountResult(store, id, fail) ==
    IF fail = 1
    THEN Result(store, ErrCreate, NoTransactions)
    ELSE Result([i \in DOMAIN store \cup {id} |->
                    IF i = id THEN NewAccount ELSE store[i]],
                Nil, NoTransactions)

\* UpdateAccount with no test of the status
UpdateAccountResultAnyStatus(store, id, fail) ==
    IF GetByIDFails(store, id, fail = 1)
    THEN Result(store, ErrGetByID, NoTransactions)
    ELSE IF fail = 2
    THEN Result(store, ErrUpdate, NoTransactions)
    ELSE Result(Update(store, id, store[id]), Nil, NoTransactions)

\* UpdateAccount: the row is written back with its status and balance as
\* read; the new name is in the Name column
UpdateAccountResult(store, id, fail) ==
    IF GetByIDFails(store, id, fail = 1)
    THEN Result(store, ErrGetByID, NoTransactions)
    ELSE IF ~IsActive(store[id])
    THEN Result(store, ErrAccountClosed, NoTransactions)
    ELSE IF fail = 2
    THEN Result(store, ErrUpdate, NoTransactions)
    ELSE Result(Update(store, id, store[id]), Nil, NoTransactions)

\* CloseAccount closing whatever it read
CloseAccountResultAnyStatus(store, id, fail) ==
    IF GetByIDFails(store, id, fail = 1)
    THEN Result(store, ErrGetByID, NoTransactions)
    ELSE IF fail = 2
    THEN Result(store, ErrUpdate, NoTransactions)
    ELSE Result(Update(store, id, Close(store[id])), Nil, NoTransactions)

CloseAccountResult(store, id, fail) ==
    IF GetByIDFails(store, id, fail = 1)
    THEN Result(store, ErrGetByID, NoTransactions)
    ELSE IF ~IsActive(store[id])
    THEN Result(store, ErrAccountClosed, NoTransactions)
    ELSE IF fail = 2
    THEN Result(store, ErrUpdate, NoTransactions)
    ELSE Result(Update(store, id, Close(store[id])), Nil, NoTransactions)

DepositResult(store, accountID, amount, fail) ==
    IF GetByIDFails(store, accountID, fail = 1)
    THEN Result(store, ErrGetByID, NoTransactions)
    ELSE LET r == Deposit(store[accountID], amount) IN
         IF r.err # Nil
         THEN Result(store, r.err, NoTransactions)
         ELSE IF fail = 2
         THEN Result(store, ErrUpdate, NoTransactions)
         ELSE Result(Update(store, accountID, r.acc),
                     ErrTxRepoNotImplemented,
                     {Complete(NewTransaction(TransactionTypeDeposit, accountID, amount))})

WithdrawResult(store, accountID, amount, fail) ==
    IF GetByIDFails(store, accountID, fail = 1)
    THEN Result(store, ErrGetByID, NoTransactions)
    ELSE LET r == Withdraw(store[accountID], amount) IN
         IF r.err # Nil
         THEN Result(store, r.err, NoTransactions)
         ELSE IF fail = 2
         THEN Result(store, ErrUpdate, NoTransactions)
         ELSE Result(Update(store, accountID, r.acc),
                     ErrTxRepoNotImplemented,
                     {Complete(NewTransaction(TransactionTypeWithdrawal, accountID, amount))})

\* Transfer with the source written as soon as it is withdrawn from, and the
\* target's status left to target.Deposit
TransferResultWithdrawSaved(store, sourceID, targetID, amount, fail) ==
    IF GetByIDFails(store, sourceID, fail = 1)
    THEN Result(store, ErrGetByID, NoTransactions)
    ELSE IF GetByIDFails(store, targetID, fail = 2)
    THEN Result(store, ErrGetByID, NoTransactions)
    ELSE IF ~IsActive(store[sourceID])
    THEN Result(store, ErrAccountClosed, NoTransactions)
    ELSE LET w == Withdraw(store[sourceID], amount)
             d == Deposit(store[targetID], amount)
             afterSource == Update(store, sourceID, w.acc)
             afterTarget == Update(afterSource, targetID, d.acc)
         IN
         IF w.err # Nil
         THEN Result(store, w.err, NoTransactions)
         ELSE IF fail = 3
         THEN Result(store, ErrUpdate, NoTransactions)
         ELSE IF d.err # Nil
         THEN Result(afterSource, d.err, NoTransactions)
         ELSE IF fail = 4
         THEN Result(afterSource, ErrUpdate, NoTransactions)
         ELSE Result(afterTarget,
                     ErrTxRepoNotImplemented,
                     {Complete(NewTransferTransaction(sourceID, targetID, amount))})

\* Each GetByID returns its own copy of the row; the two Updates are two
\* separate writes, the source first.
TransferResult(store, sourceID, targetID, amount, fail) ==
    IF GetByIDFails(store, sourceID, fail = 1)
    THEN Result(store, ErrGetByID, NoTransactions)
    ELSE IF GetByIDFails(store, targetID, fail = 2)
    THEN Result(store, ErrGetByID, NoTransactions)
    ELSE IF ~IsActive(store[sourceID])
    THEN Result(store, ErrAccountClosed, NoTransactions)
    ELSE IF ~IsActive(store[targetID])
    THEN Result(store, ErrAccountClosed, NoTransactions)
    ELSE LET w == Withdraw(store[sourceID], amount)
             d == Deposit(store[targetID], amount)
             afterSource == Update(store, sourceID, w.acc)
             afterTarget == Update(afterSource, targetID, d.acc)
         IN
         IF w.err # Nil
         THEN Result(store, w.err, NoTransactions)
         ELSE IF d.err # Nil
         THEN Result(store, d.err, NoTransactions)
         ELSE IF fail = 3
         THEN Result(store, ErrUpdate, NoTransactions)
         ELSE IF fail = 4
         THEN Result(afterSource, ErrUpdate, NoTransactions)
         ELSE Result(afterTarget,
                     ErrTxRepoNotImplemented,
                     {Complete(NewTransferTransaction(sourceID, targetID, amount))})

BalancesInRange(store) == \A i \in DOMAIN store : InBalanceRange(store[i].Balance)

\* what the caller of a request sees: the error and the transactions returned
Returned(op, id, target, amount, r) ==
    [op |-> op, id |-> id, target |-> target, amount |-> amount,
     err |-> r.err, txs |-> r.txs]

InitBank ==
    /\ accounts = [i \in {} |-> NewAccount]
    /\ accountDetails = [i \in {} |-> NewAccountDetails("main")]
    /\ transactions = {}
    /\ ret = [op |-> "none", id |-> NoAccount, target |-> NoAccount, amount |-> 0,
              err |-> Nil, txs |-> NoTransactions]

CreateAccount(id, name, fail) ==
    LET r == CreateAccountResult(accounts, id, fail) IN
    /\ id \notin DOMAIN accounts
    /\ accounts' = r.accounts
    /\ accountDetails' = IF r.err = Nil
                         THEN [i \in DOMAIN r.accounts |->
                                  IF i = id THEN NewAccountDetails(name)
                                            ELSE accountDetails[i]]
                         ELSE accountDetails
    /\ ret' = Returned("CreateAccount", id, NoAccount, 0, r)
    /\ UNCHANGED <<transactions, entityVars, payVars, domainVars>>

UpdateAccount(id, name, fail) ==
    LET r == UpdateAccountResult(accounts, id, fail) IN
    /\ accounts' = r.accounts
    /\ accountDetails' = IF r.err = Nil
                         THEN [accountDetails EXCEPT ![id].Name = name]
                         ELSE accountDetails
    /\ ret' = Returned("UpdateAccount", id, NoAccount, 0, r)
    /\ UNCHANGED <<transactions, entityVars, payVars, domainVars>>

CloseAccount(id, now, fail) ==
    LET r == CloseAccountResult(accounts, id, fail) IN
    /\ accounts' = r.accounts
    /\ accountDetails' = IF r.err = Nil
                         THEN [accountDetails EXCEPT ![id].ClosedAt = now]
                         ELSE accountDetails
    /\ ret' = Returned("CloseAccount", id, NoAccount, 0, r)
    /\ UNCHANGED <<transactions, entityVars, payVars, domainVars>>

AccountServiceDeposit(accountID, amount, fail) ==
    LET r == DepositResult(accounts, accountID, amount, fail) IN
    /\ BalancesInRange(r.accounts)
    /\ accounts' = r.accounts
    /\ ret' = Returned("Deposit", accountID, NoAccount, amount, r)
    /\ UNCHANGED <<transactions, accountDetails, entityVars, payVars, domainVars>>

AccountServiceWithdraw(accountID, amount, fail) ==
    LET r == WithdrawResult(accounts, accountID, amount, fail) IN
    /\ BalancesInRange(r.accounts)
    /\ accounts' = r.accounts
    /\ ret' = Returned("Withdraw", accountID, NoAccount, amount, r)
    /\ UNCHANGED <<transactions, accountDetails, entityVars, payVars, domainVars>>

Transfer(sourceID, targetID, amount, fail) ==
    LET r == TransferResult(accounts, sourceID, targetID, amount, fail) IN
    /\ BalancesInRange(r.accounts)
    /\ accounts' = r.accounts
    /\ ret' = Returned("Transfer", sourceID, targetID, amount, r)
    /\ UNCHANGED <<transactions, accountDetails, entityVars, payVars, domainVars>>

NextBank ==
    \/ \E id \in AccountIDs, fail \in 0..1 : CreateAccount(id, "main", fail)
    \/ \E id \in AccountIDs, fail \in 0..2 : CloseAccount(id, 1, fail)
    \/ \E id \in AccountIDs, amount \in RequestAmounts, fail \in 0..2 :
          AccountServiceDeposit(id, amount, fail)
    \/ \E id \in AccountIDs, amount \in RequestAmounts, fail \in 0..2 :
          AccountServiceWithdraw(id, amount, fail)
    \/ \E s \in AccountIDs, t \in AccountIDs, amount \in RequestAmounts, fail \in 0..4 :
          Transfer(s, t, amount, fail)

\* the requests with UpdateAccount, every name and every closing time; the
\* requests that move money move 1 and meet no repository failure
NextAccountDetails ==
    \/ \E id \in AccountIDs, name \in AccountNames, fail \in 0..1 :
          CreateAccount(id, name, fail)
    \/ \E id \in AccountIDs, name \in AccountNames, fail \in 0..2 :
          UpdateAccount(id, name, fail)
    \/ \E id \in AccountIDs, now \in Times, fail \in 0..2 : CloseAccount(id, now, fail)
    \/ \E id \in AccountIDs : AccountServiceDeposit(id, 1, 0)
    \/ \E id \in AccountIDs : AccountServiceWithdraw(id, 1, 0)
    \/ \E s \in AccountIDs, t \in AccountIDs : Transfer(s, t, 1, 0)

(***************************************************************************)
(* domain.TaxPayment                                                       *)
(***************************************************************************)
PaymentStatusPending   == "pending"
PaymentStatusCompleted == "completed"
PaymentStatusFailed    == "failed"
PaymentStatusRefunded  == "refunded"
PaymentStatusVoided    == "voided"

ErrInvalidPaymentAmount  == "invalid payment amount"
ErrInvalidFilingPeriod   == "invalid filing period"
ErrOnlyCompletedRefunded == "only completed payments can be refunded"
ErrOnlyPendingVoided     == "only pending payments can be voided"
ErrOnlyPendingUpdated    == "only pending payments can be updated"

NoFiling == ""

NewTaxPayment(filingID, amount) ==
    IF amount <= 0
    THEN [err |-> ErrInvalidPaymentAmount]
    ELSE [err |-> Nil,
          payment |-> [FilingID |-> filingID, Amount |-> amount,
                       Status |-> PaymentStatusPending]]

MarkAsCompleted(tp) == [tp EXCEPT !.Status = PaymentStatusCompleted]

MarkAsFailed(tp) == [tp EXCEPT !.Status = PaymentStatusFailed]

RefundUnguarded(tp) ==
    [payment |-> [tp EXCEPT !.Status = PaymentStatusRefunded], err |-> Nil]

Refund(tp) ==
    IF tp.Status # PaymentStatusCompleted
    THEN [payment |-> tp, err |-> ErrOnlyCompletedRefunded]
    ELSE [payment |-> [tp EXCEPT !.Status = PaymentStatusRefunded], err |-> Nil]

Void(tp) ==
    IF tp.Status # PaymentStatusPending
    THEN [payment |-> tp, err |-> ErrOnlyPendingVoided]
    ELSE [payment |-> [tp EXCEPT !.Status = PaymentStatusVoided], err |-> Nil]

UpdateAmountUnchecked(tp, amount) ==
    IF tp.Status # PaymentStatusPending
    THEN [payment |-> tp, err |-> ErrOnlyPendingUpdated]
    ELSE [payment |-> [tp EXCEPT !.Amount = amount], err |-> Nil]

UpdateAmount(tp, amount) ==
    IF tp.Status # PaymentStatusPending
    THEN [payment |-> tp, err |-> ErrOnlyPendingUpdated]
    ELSE IF amount <= 0
    THEN [payment |-> tp, err |-> ErrInvalidPaymentAmount]
    ELSE [payment |-> [tp EXCEPT !.Amount = amount], err |-> Nil]

(***************************************************************************)
(* domain.TaxFiling                                                        *)
(* A date is NoDate (nil) or a reading of the clock; Notes is the sequence *)
(* of the pieces the notes string is made of; Deductions and Credits are   *)
(* the sequences of the amounts of their entries.                          *)
(***************************************************************************)
FilingStatusDraft      == "draft"
FilingStatusSubmitted  == "submitted"
FilingStatusProcessing == "processing"
FilingStatusAccepted   == "accepted"
FilingStatusRejected   == "rejected"
FilingStatusAmended    == "amended"

ErrInvalidFilingStatus == "invalid filing status"

NoDate == 0

\* reason strings callers pass
Reasons == {"", "late"}

Days == 1..2

NewTaxFiling(periodStart, periodEnd) ==
    IF periodEnd < periodStart
    THEN [err |-> ErrInvalidFilingPeriod]
    ELSE [err |-> Nil,
          filing |-> [Status |-> FilingStatusDraft,
                      GrossIncome |-> 0, TaxableIncome |-> 0,
                      TotalSales |-> 0, TaxableAmount |-> 0,
                      TaxCalculated |-> 0, TaxPaid |-> 0,
                      SubmissionDate |-> NoDate, AcceptanceDate |-> NoDate,
                      Deductions |-> <<>>, Credits |-> <<>>, Notes |-> <<>>]]

FilingResult(tf, err) == [filing |-> tf, err |-> err]

SubmitFilingAnyStatus(tf, now) ==
    FilingResult([tf EXCEPT !.Status = FilingStatusSubmitted, !.SubmissionDate = now], Nil)

SubmitFiling(tf, now) ==
    IF tf.Status # FilingStatusDraft
    THEN FilingResult(tf, ErrInvalidFilingStatus)
    ELSE FilingResult([tf EXCEPT !.Status = FilingStatusSubmitted,
                                 !.SubmissionDate = now], Nil)

AcceptFilingFromDraft(tf, now) ==
    IF tf.Status \notin {FilingStatusDraft, FilingStatusSubmitted, FilingStatusProcessing}
    THEN FilingResult(tf, ErrInvalidFilingStatus)
    ELSE FilingResult([tf EXCEPT !.Status = FilingStatusAccepted,
                                 !.AcceptanceDate = now], Nil)

AcceptFiling(tf, now) ==
    IF tf.Status # FilingStatusSubmitted /\ tf.Status # FilingStatusProcessing
    THEN FilingResult(tf, ErrInvalidFilingStatus)
    ELSE FilingResult([tf EXCEPT !.Status = FilingStatusAccepted,
                                 !.AcceptanceDate = now], Nil)

RejectFilingAnyStatus(tf, reason) ==
    FilingResult([tf EXCEPT !.Status = FilingStatusRejected,
                            !.Notes = Append(@, <<"Rejection reason", reason>>)],
                 Nil)

RejectFiling(tf, reason) ==
    IF tf.Status # FilingStatusSubmitted /\ tf.Status # FilingStatusProcessing
    THEN FilingResult(tf, ErrInvalidFilingStatus)
    ELSE FilingResult([tf EXCEPT !.Status = FilingStatusRejected,
                                 !.Notes = Append(@, <<"Rejection reason", reason>>)],
                      Nil)

\* amended := *tf, then the identity, status, dates and notes of the copy
AmendFiling(tf, id) ==
    [tf EXCEPT !.Status = FilingStatusAmended,
               !.SubmissionDate = NoDate,
               !.AcceptanceDate = NoDate,
               !.Notes = <<<<"Amended from filing ID", id>>>>]

AddDeduction(tf, amount) == [tf EXCEPT !.Deductions = Append(@, amount)]

AddCredit(tf, amount) == [tf EXCEPT !.Credits = Append(@, amount)]

\* filing.TaxPaid += payment.Amount
AddTaxPaid(filing, amount) == [filing EXCEPT !.TaxPaid = @ + amount]

\* filing.TaxPaid -= payment.Amount; if filing.TaxPaid < 0 { filing.TaxPaid = 0 }
SubtractTaxPaidNoFloor(filing, amount) == [filing EXCEPT !.TaxPaid = @ - amount]

SubtractTaxPaid(filing, amount) ==
    [filing EXCEPT !.TaxPaid = IF @ - amount < 0 THEN 0 ELSE @ - amount]

(***************************************************************************)
(* taxPaymentService over the payment and filing repositories              *)
(* fail = 0: every repository call of the request succeeds;                *)
(* fail = n: the n-th repository call the request can make returns an      *)
(* error (a call the request does not make cannot fail).                   *)
(***************************************************************************)
PayResult(ps, fs, err) == [payments |-> ps, filings |-> fs, err |-> err]

RowMissing(store, id, failed) == failed \/ id \notin DOMAIN store

Insert(store, id, row) ==
    [i \in DOMAIN store \cup {id} |-> IF i = id THEN row ELSE store[i]]

CreateTaxFilingResult(ps, fs, id, periodStart, periodEnd, fail) ==
    LET n == NewTaxFiling(periodStart, periodEnd) IN
    IF fail = 1
    THEN PayResult(ps, fs, ErrGetByID)
    ELSE IF n.err # Nil
    THEN PayResult(ps, fs, n.err)
    ELSE IF fail = 2
    THEN PayResult(ps, fs, ErrCreate)
    ELSE PayResult(ps, Insert(fs, id, n.filing), Nil)

CreateTaxPaymentResult(ps, fs, id, filingID, amount, fail) ==
    LET n == NewTaxPayment(filingID, amount) IN
    IF filingID # NoFiling /\ RowMissing(fs, filingID, fail = 1)
    THEN PayResult(ps, fs, ErrGetByID)
    ELSE IF n.err # Nil
    THEN PayResult(ps, fs, n.err)
    ELSE IF fail = 2
    THEN PayResult(ps, fs, ErrCreate)
    ELSE PayResult(Insert(ps, id, n.payment), fs, Nil)

\* a ProcessTaxPayment that refuses a payment that is not pending
ProcessTaxPaymentResultPendingOnly(ps, fs, id, fail) ==
    IF RowMissing(ps, id, fail = 1)
    THEN PayResult(ps, fs, ErrGetByID)
    ELSE IF ps[id].Status # PaymentStatusPending
    THEN PayResult(ps, fs, ErrOnlyPendingUpdated)
    ELSE IF fail = 2
    THEN PayResult(ps, fs, ErrUpdate)
    ELSE IF ps[id].FilingID = NoFiling \/ RowMissing(fs, ps[id].FilingID, fail = 3)
                                       \/ fail = 4
    THEN PayResult([ps EXCEPT ![id] = MarkAsCompleted(@)], fs, Nil)
    ELSE PayResult([ps EXCEPT ![id] = MarkAsCompleted(@)],
                   [fs EXCEPT ![ps[id].FilingID] = AddTaxPaid(@, ps[id].Amount)],
                   Nil)

ProcessTaxPaymentResult(ps, fs, id, fail) ==
    IF RowMissing(ps, id, fail = 1)
    THEN PayResult(ps, fs, ErrGetByID)
    ELSE LET payment == MarkAsCompleted(ps[id])
             stored  == [ps EXCEPT ![id] = payment]
         IN
         IF fail = 2
         THEN PayResult(ps, fs, ErrUpdate)
         ELSE IF payment.FilingID = NoFiling
         THEN PayResult(stored, fs, Nil)
         ELSE IF RowMissing(fs, payment.FilingID, fail = 3)
         THEN PayResult(stored, fs, Nil)
         ELSE IF fail = 4
         THEN PayResult(stored, fs, Nil)
         ELSE PayResult(stored,
                        [fs EXCEPT ![payment.FilingID] = AddTaxPaid(@, payment.Amount)],
                        Nil)

MarkTaxPaymentAsFailedResult(ps, fs, id, fail) ==
    IF RowMissing(ps, id, fail = 1)
    THEN PayResult(ps, fs, ErrGetByID)
    ELSE IF fail = 2
    THEN PayResult(ps, fs, ErrUpdate)
    ELSE PayResult([ps EXCEPT ![id] = MarkAsFailed(@)], fs, Nil)

\* a RefundTaxPayment that returns the error of the filing's GetByID
RefundTaxPaymentResultPropagating(ps, fs, id, fail) ==
    IF RowMissing(ps, id, fail = 1)
    THEN PayResult(ps, fs, ErrGetByID)
    ELSE LET r      == Refund(ps[id])
             stored == [ps EXCEPT ![id] = r.payment]
         IN
         IF r.err # Nil
         THEN PayResult(ps, fs, r.err)
         ELSE IF fail = 2
         THEN PayResult(ps, fs, ErrUpdate)
         ELSE IF r.payment.FilingID = NoFiling
         THEN PayResult(stored, fs, Nil)
         ELSE IF RowMissing(fs, r.payment.FilingID, fail = 3)
         THEN PayResult(stored, fs, ErrGetByID)
         ELSE IF fail = 4
         THEN PayResult(stored, fs, Nil)
         ELSE PayResult(stored,
                        [fs EXCEPT ![r.payment.FilingID] = SubtractTaxPaid(@, r.payment.Amount)],
                        Nil)

RefundTaxPaymentResult(ps, fs, id, fail) ==
    IF RowMissing(ps, id, fail = 1)
    THEN PayResult(ps, fs, ErrGetByID)
    ELSE LET r       == Refund(ps[id])
             payment == r.payment
             stored  == [ps EXCEPT ![id] = payment]
         IN
         IF r.err # Nil
         THEN PayResult(ps, fs, r.err)
         ELSE IF fail = 2
         THEN PayResult(ps, fs, ErrUpdate)
         ELSE IF payment.FilingID = NoFiling
         THEN PayResult(stored, fs, Nil)
         ELSE IF RowMissing(fs, payment.FilingID, fail = 3)
         THEN PayResult(stored, fs, Nil)
         ELSE IF fail = 4
         THEN PayResult(stored, fs, Nil)
         ELSE PayResult(stored,
                        [fs EXCEPT ![payment.FilingID] = SubtractTaxPaid(@, payment.Amount)],
                        Nil)

VoidTaxPaymentResult(ps, fs, id, fail) ==
    IF RowMissing(ps, id, fail = 1)
    THEN PayResult(ps, fs, ErrGetByID)
    ELSE LET r == Void(ps[id]) IN
         IF r.err # Nil
         THEN PayResult(ps, fs, r.err)
         ELSE IF fail = 2
         THEN PayResult(ps, fs, ErrUpdate)
         ELSE PayResult([ps EXCEPT ![id] = r.payment], fs, Nil)

UpdateTaxPaymentAmountResult(ps, fs, id, amount, fail) ==
    IF RowMissing(ps, id, fail = 1)
    THEN PayResult(ps, fs, ErrGetByID)
    ELSE LET r == UpdateAmount(ps[id], amount) IN
         IF r.err # Nil
         THEN PayResult(ps, fs, r.err)
         ELSE IF fail = 2
         THEN PayResult(ps, fs, ErrUpdate)
         ELSE PayResult([ps EXCEPT ![id] = r.payment], fs, Nil)

TaxPaidInRange(fs) == \A f \in DOMAIN fs : fs[f].TaxPaid <= MaxTaxPaid

PayReturned(op, id, r) == [op |-> op, id |-> id, err |-> r.err]

\* the stores and the returned value after a request with outcome r
PayWrite(op, id, r) ==
    /\ payments' = r.payments
    /\ filings' = r.filings
    /\ payRet' = PayReturned(op, id, r)
    /\ UNCHANGED <<entityVars, bankVars, domainVars>>

InitPay ==
    /\ payments = [i \in {} |-> 0]
    /\ filings = [i \in {} |-> 0]
    /\ payRet = [op |-> "none", id |-> NoFiling, err |-> Nil]

\* the returned value of CreateTaxFiling is kept with the period asked for
CreateTaxFiling(id, periodStart, periodEnd, fail) ==
    LET r == CreateTaxFilingResult(payments, filings, id, periodStart, periodEnd, fail)
    IN  /\ id \notin DOMAIN filings
        /\ payments' = r.payments
        /\ filings' = r.filings
        /\ payRet' = [op |-> "CreateTaxFiling", id |-> id, err |-> r.err,
                      periodStart |-> periodStart, periodEnd |-> periodEnd]
        /\ UNCHANGED <<entityVars, bankVars, domainVars>>

CreateTaxPayment(id, filingID, amount, fail) ==
    /\ id \notin DOMAIN payments
    /\ PayWrite("CreateTaxPayment", id,
                CreateTaxPaymentResult(payments, filings, id, filingID, amount, fail))

ProcessTaxPayment(id, fail) ==
    LET r == ProcessTaxPaymentResult(payments, filings, id, fail) IN
    /\ TaxPaidInRange(r.filings)
    /\ PayWrite("ProcessTaxPayment", id, r)

MarkTaxPaymentAsFailed(id, fail) ==
    LET r == MarkTaxPaymentAsFailedResult(payments, filings, id, fail) IN
    /\ id \in PaymentIDs
    /\ PayWrite("MarkTaxPaymentAsFailed", id, r)

RefundTaxPayment(id, fail) ==
    LET r == RefundTaxPaymentResult(payments, filings, id, fail) IN
    /\ id \in PaymentIDs
    /\ PayWrite("RefundTaxPayment", id, r)

VoidTaxPayment(id, fail) ==
    LET r == VoidTaxPaymentResult(payments, filings, id, fail) IN
    /\ id \in PaymentIDs
    /\ PayWrite("VoidTaxPayment", id, r)

UpdateTaxPaymentAmount(id, amount, fail) ==
    LET r == UpdateTaxPaymentAmountResult(payments, filings, id, amount, fail) IN
    /\ id \in PaymentIDs
    /\ PayWrite("UpdateTaxPaymentAmount", id, r)

\* The requests of the treasury services, each with its failing call drawn
\* from Fails.
NextPayOf(Fails) ==
    \/ \E id \in FilingIDs, ps \in Days, pe \in Days, fail \in Fails \cap 0..2 :
          CreateTaxFiling(id, ps, pe, fail)
    \/ \E id \in PaymentIDs, f \in FilingIDs \cup {NoFiling},
          amount \in PaymentAmounts,
          fail \in Fails \cap 0..2 :
          CreateTaxPayment(id, f, amount, fail)
    \/ \E id \in PaymentIDs, fail \in Fails \cap 0..4 : ProcessTaxPayment(id, fail)
    \/ \E id \in PaymentIDs, fail \in Fails \cap 0..2 : MarkTaxPaymentAsFailed(id, fail)
    \/ \E id \in PaymentIDs, fail \in Fails \cap 0..4 : RefundTaxPayment(id, fail)
    \/ \E id \in PaymentIDs, fail \in Fails \cap 0..2 : VoidTaxPayment(id, fail)
    \/ \E id \in PaymentIDs, amount \in PaymentAmounts, fail \in Fails \cap 0..2 :
          UpdateTaxPaymentAmount(id, amount, fail)

NextPay == NextPayOf(0..4)

NextPayNoFailure == NextPayOf({0})

(***************************************************************************)
(* Entity-level calls on one TaxPayment, with its notes and refundedAt     *)
(* Notes is the sequence of the pieces appended to the notes string;       *)
(* a time is NoTime (nil) or a reading of the clock.                       *)
(***************************************************************************)
\* the fields NewTaxPayment leaves at their zero value
WithNotes(tp) ==
    [FilingID |-> tp.FilingID, Amount |-> tp.Amount, Status |-> tp.Status,
     Notes |-> <<>>, RefundedAt |-> NoTime]

TaxPaymentMarkAsFailed(tp, reason) ==
    [MarkAsFailed(tp) EXCEPT
        !.Notes = IF reason # "" THEN Append(@, <<"Failure reason", reason>>) ELSE @]

TaxPaymentRefund(tp, reason, now) ==
    LET r == Refund(tp) IN
    IF r.err # Nil
    THEN r
    ELSE [payment |-> [r.payment EXCEPT !.RefundedAt = now,
                                        !.Notes = Append(@, <<"Refund reason", reason>>)],
          err |-> Nil]

TaxPaymentVoid(tp, reason) ==
    LET r == Void(tp) IN
    IF r.err # Nil
    THEN r
    ELSE [payment |-> [r.payment EXCEPT !.Notes = Append(@, <<"Void reason", reason>>)],
          err |-> Nil]

InitTaxPayment ==
    /\ taxPayment = WithNotes(NewTaxPayment(NoFiling, MaxPayment).payment)
    /\ taxPaymentRet = [op |-> "NewTaxPayment", amount |-> taxPayment.Amount, err |-> Nil]

TaxPaymentCall(op, amount, r) ==
    /\ Len(r.payment.Notes) <= MaxNotes
    /\ taxPayment' = r.payment
    /\ taxPaymentRet' = [op |-> op, amount |-> amount, err |-> r.err]
    /\ UNCHANGED <<entityVars, bankVars, payVars, memVars, taxRateVars, laterVars>>

CallNewTaxPayment(amount) ==
    LET n == NewTaxPayment(NoFiling, amount) IN
    /\ amount \in PaymentAmounts
    /\ TaxPaymentCall("NewTaxPayment", amount,
                      IF n.err # Nil
                      THEN [payment |-> taxPayment, err |-> n.err]
                      ELSE [payment |-> WithNotes(n.payment), err |-> Nil])

CallMarkAsCompleted ==
    /\ taxPayment.Status \in {PaymentStatusPending, PaymentStatusCompleted,
                              PaymentStatusFailed, PaymentStatusRefunded,
                              PaymentStatusVoided}
    /\ TaxPaymentCall("MarkAsCompleted", 0,
                      [payment |-> MarkAsCompleted(taxPayment), err |-> Nil])

CallMarkAsFailed(reason) ==
    /\ reason \in Reasons
    /\ TaxPaymentCall("MarkAsFailed", 0,
                      [payment |-> TaxPaymentMarkAsFailed(taxPayment, reason), err |-> Nil])

CallRefund(reason, now) ==
    /\ reason \in Reasons
    /\ TaxPaymentCall("Refund", 0, TaxPaymentRefund(taxPayment, reason, now))

CallVoid(reason) ==
    /\ reason \in Reasons
    /\ TaxPaymentCall("Void", 0, TaxPaymentVoid(taxPayment, reason))

CallUpdateAmount(amount) ==
    /\ amount \in PaymentAmounts
    /\ TaxPaymentCall("UpdateAmount", amount, UpdateAmount(taxPayment, amount))

NextTaxPayment ==
    \/ \E amount \in PaymentAmounts : CallNewTaxPayment(amount)
    \/ CallMarkAsCompleted
    \/ \E reason \in Reasons : CallMarkAsFailed(reason)
    \/ \E reason \in Reasons, now \in Times : CallRefund(reason, now)
    \/ \E reason \in Reasons : CallVoid(reason)
    \/ \E amount \in PaymentAmounts : CallUpdateAmount(amount)

(***************************************************************************)
(* taxFilingService over the filing repository                             *)
(* fail = 1: taxFilingRepo.GetByID returns an error; fail = 2: the         *)
(* Update (Create for an amend) returns an error.                          *)
(***************************************************************************)
AmendedFilingIDs == {"F2"}    \* identities AmendFiling hands out

AllFilingIDs == FilingIDs \cup AmendedFilingIDs

\* the four amounts of one UpdateTaxFilingAmounts request, pairwise different
IncomeRequests ==
    {[grossIncome |-> 4, taxableIncome |-> 3, totalSales |-> 2, taxableAmount |-> 1]}

\* amount of a deduction or credit, and the tax a ProcessTaxFiling request carries
ItemAmounts == {1}

TaxAmounts == {1}

UpdateTaxFilingAmountsResult(ps, fs, id, req, fail) ==
    IF RowMissing(fs, id, fail = 1)
    THEN PayResult(ps, fs, ErrGetByID)
    ELSE IF fs[id].Status # FilingStatusDraft
    THEN PayResult(ps, fs, ErrInvalidFilingStatus)
    ELSE IF fail = 2
    THEN PayResult(ps, fs, ErrUpdate)
    ELSE PayResult(ps,
                   [fs EXCEPT ![id] = [@ EXCEPT !.GrossIncome = req.grossIncome,
                                                !.TaxableIncome = req.taxableIncome,
                                                !.TotalSales = req.totalSales,
                                                !.TaxableAmount = req.taxableAmount]],
                   Nil)

AddDeductionResult(ps, fs, id, amount, fail) ==
    IF RowMissing(fs, id, fail = 1)
    THEN PayResult(ps, fs, ErrGetByID)
    ELSE IF fs[id].Status # FilingStatusDraft
    THEN PayResult(ps, fs, ErrInvalidFilingStatus)
    ELSE IF fail = 2
    THEN PayResult(ps, fs, ErrUpdate)
    ELSE PayResult(ps, [fs EXCEPT ![id] = AddDeduction(@, amount)], Nil)

AddCreditResultAnyStatus(ps, fs, id, amount, fail) ==
    IF RowMissing(fs, id, fail = 1)
    THEN PayResult(ps, fs, ErrGetByID)
    ELSE IF fail = 2
    THEN PayResult(ps, fs, ErrUpdate)
    ELSE PayResult(ps, [fs EXCEPT ![id] = AddCredit(@, amount)], Nil)

AddCreditResult(ps, fs, id, amount, fail) ==
    IF RowMissing(fs, id, fail = 1)
    THEN PayResult(ps, fs, ErrGetByID)
    ELSE IF fs[id].Status # FilingStatusDraft
    THEN PayResult(ps, fs, ErrInvalidFilingStatus)
    ELSE IF fail = 2
    THEN PayResult(ps, fs, ErrUpdate)
    ELSE PayResult(ps, [fs EXCEPT ![id] = AddCredit(@, amount)], Nil)

\* GetByID, an entity method returning r, Update
FilingMethodResult(ps, fs, id, r, fail) ==
    IF r.err # Nil
    THEN PayResult(ps, fs, r.err)
    ELSE IF fail = 2
    THEN PayResult(ps, fs, ErrUpdate)
    ELSE PayResult(ps, [fs EXCEPT ![id] = r.filing], Nil)

SubmitTaxFilingResult(ps, fs, id, now, fail) ==
    IF RowMissing(fs, id, fail = 1)
    THEN PayResult(ps, fs, ErrGetByID)
    ELSE FilingMethodResult(ps, fs, id, SubmitFiling(fs[id], now), fail)

\* a ProcessTaxFiling that refuses a draft only
ProcessTaxFilingResultUnlessDraft(ps, fs, id, taxCalculated, fail) ==
    IF RowMissing(fs, id, fail = 1)
    THEN PayResult(ps, fs, ErrGetByID)
    ELSE IF fs[id].Status = FilingStatusDraft
    THEN PayResult(ps, fs, ErrInvalidFilingStatus)
    ELSE IF fail = 2
    THEN PayResult(ps, fs, ErrUpdate)
    ELSE PayResult(ps,
                   [fs EXCEPT ![id] = [@ EXCEPT !.Status = FilingStatusProcessing,
                                                !.TaxCalculated = taxCalculated]],
                   Nil)

ProcessTaxFilingResult(ps, fs, id, taxCalculated, fail) ==
    IF RowMissing(fs, id, fail = 1)
    THEN PayResult(ps, fs, ErrGetByID)
    ELSE IF fs[id].Status # FilingStatusSubmitted
    THEN PayResult(ps, fs, ErrInvalidFilingStatus)
    ELSE IF fail = 2
    THEN PayResult(ps, fs, ErrUpdate)
    ELSE PayResult(ps,
                   [fs EXCEPT ![id] = [@ EXCEPT !.Status = FilingStatusProcessing,
                                                !.TaxCalculated = taxCalculated]],
                   Nil)

AcceptTaxFilingResult(ps, fs, id, now, fail) ==
    IF RowMissing(fs, id, fail = 1)
    THEN PayResult(ps, fs, ErrGetByID)
    ELSE FilingMethodResult(ps, fs, id, AcceptFiling(fs[id], now), fail)

RejectTaxFilingResult(ps, fs, id, reason, fail) ==
    IF RowMissing(fs, id, fail = 1)
    THEN PayResult(ps, fs, ErrGetByID)
    ELSE FilingMethodResult(ps, fs, id, RejectFiling(fs[id], reason), fail)

AmendTaxFilingResult(ps, fs, id, newID, fail) ==
    IF RowMissing(fs, id, fail = 1)
    THEN PayResult(ps, fs, ErrGetByID)
    ELSE IF fail = 2
    THEN PayResult(ps, fs, ErrCreate)
    ELSE PayResult(ps, Insert(fs, newID, AmendFiling(fs[id], id)), Nil)

ItemsInRange(fs) ==
    \A f \in DOMAIN fs : Len(fs[f].Deductions) + Len(fs[f].Credits) <= MaxItems

UpdateTaxFilingAmounts(id, req, fail) ==
    /\ id \in AllFilingIDs
    /\ PayWrite("UpdateTaxFilingAmounts", id,
                UpdateTaxFilingAmountsResult(payments, filings, id, req, fail))

TaxFilingServiceAddDeduction(id, amount, fail) ==
    LET r == AddDeductionResult(payments, filings, id, amount, fail) IN
    /\ ItemsInRange(r.filings)
    /\ PayWrite("AddDeduction", id, r)

TaxFilingServiceAddCredit(id, amount, fail) ==
    LET r == AddCreditResult(payments, filings, id, amount, fail) IN
    /\ ItemsInRange(r.filings)
    /\ PayWrite("AddCredit", id, r)

SubmitTaxFiling(id, now, fail) ==
    /\ id \in AllFilingIDs
    /\ PayWrite("SubmitTaxFiling", id,
                SubmitTaxFilingResult(payments, filings, id, now, fail))

ProcessTaxFiling(id, taxCalculated, fail) ==
    /\ id \in AllFilingIDs
    /\ PayWrite("ProcessTaxFiling", id,
                ProcessTaxFilingResult(payments, filings, id, taxCalculated, fail))

AcceptTaxFiling(id, now, fail) ==
    /\ id \in AllFilingIDs
    /\ PayWrite("AcceptTaxFiling", id,
                AcceptTaxFilingResult(payments, filings, id, now, fail))

RejectTaxFiling(id, reason, fail) ==
    /\ id \in AllFilingIDs
    /\ PayWrite("RejectTaxFiling", id,
                RejectTaxFilingResult(payments, filings, id, reason, fail))

\* uuid.New() gives the amended filing an identity no stored filing has
AmendTaxFiling(id, newID, fail) ==
    /\ newID \notin DOMAIN filings
    /\ PayWrite("AmendTaxFiling", id,
                AmendTaxFilingResult(payments, filings, id, newID, fail))

NextFiling ==
    \/ \E id \in FilingIDs, ps \in Days, pe \in Days, fail \in 0..2 :
          CreateTaxFiling(id, ps, pe, fail)
    \/ \E id \in AllFilingIDs, req \in IncomeRequests, fail \in 0..2 :
          UpdateTaxFilingAmounts(id, req, fail)
    \/ \E id \in AllFilingIDs, amount \in ItemAmounts, fail \in 0..2 :
          TaxFilingServiceAddDeduction(id, amount, fail)
    \/ \E id \in AllFilingIDs, amount \in ItemAmounts, fail \in 0..2 :
          TaxFilingServiceAddCredit(id, amount, fail)
    \/ \E id \in AllFilingIDs, now \in Times, fail \in 0..2 :
          SubmitTaxFiling(id, now, fail)
    \/ \E id \in AllFilingIDs, taxCalculated \in TaxAmounts, fail \in 0..2 :
          ProcessTaxFiling(id, taxCalculated, fail)
    \/ \E id \in AllFilingIDs, now \in Times, fail \in 0..2 :
          AcceptTaxFiling(id, now, fail)
    \/ \E id \in AllFilingIDs, reason \in Reasons \ {""}, fail \in 0..2 :
          RejectTaxFiling(id, reason, fail)
    \/ \E id \in AllFilingIDs, newID \in AmendedFilingIDs, fail \in 0..2 :
          AmendTaxFiling(id, newID, fail)

\* the requests to TaxFilingService with every repository call succeeding,
\* AmendTaxFiling with two identities to hand out
NextAmended ==
    \/ \E id \in FilingIDs : CreateTaxFiling(id, 1, 2, 0)
    \/ \E id \in AllFilingIDs, req \in IncomeRequests : UpdateTaxFilingAmounts(id, req, 0)
    \/ \E id \in AllFilingIDs, amount \in ItemAmounts :
          TaxFilingServiceAddDeduction(id, amount, 0)
    \/ \E id \in AllFilingIDs, amount \in ItemAmounts :
          TaxFilingServiceAddCredit(id, amount, 0)
    \/ \E id \in AllFilingIDs : SubmitTaxFiling(id, 1, 0)
    \/ \E id \in AllFilingIDs, taxCalculated \in TaxAmounts :
          ProcessTaxFiling(id, taxCalculated, 0)
    \/ \E id \in AllFilingIDs : AcceptTaxFiling(id, 2, 0)
    \/ \E id \in AllFilingIDs : RejectTaxFiling(id, "late", 0)
    \/ \E id \in AllFilingIDs, newID \in {"F2", "F3"} : AmendTaxFiling(id, newID, 0)

(***************************************************************************)
(* Entity-level calls on in-memory TaxFiling values                        *)
(* Deductions and Credits are Go slices: a reference to a backing array of *)
(* heap, a length and a capacity.  A struct copy (amended := *tf) copies   *)
(* the three words of each slice, not the array.  The status methods are   *)
(* followed on stored filings (taxFilingService above).                    *)
(***************************************************************************)
NoArray == 0

\* []Deduction{}
EmptySlice == [arr |-> NoArray, len |-> 0, cap |-> 0]

\* the elements a slice shows
Elements(h, s) == [i \in 1..s.len |-> h[s.arr][i]]

\* capacity append gives a slice that is full (small slices double)
GrowCap(cap) == IF cap = 0 THEN 1 ELSE 2 * cap

\* append(s, x): in place when the capacity allows, else into a new array
SliceAppend(h, s, x) ==
    IF s.len < s.cap
    THEN [heap |-> [h EXCEPT ![s.arr] = [@ EXCEPT ![s.len + 1] = x]],
          slice |-> [s EXCEPT !.len = @ + 1]]
    ELSE LET newcap == GrowCap(s.cap)
             array == [i \in 1..newcap |->
                          IF i <= s.len THEN h[s.arr][i]
                          ELSE IF i = s.len + 1 THEN x ELSE 0]
         IN
         [heap |-> Append(h, array),
          slice |-> [arr |-> Len(h) + 1, len |-> s.len + 1, cap |-> newcap]]

\* the filing NewTaxFiling returns, its slices empty
NewTaxFilingInMemory(id) ==
    [ID |-> id, Status |-> FilingStatusDraft,
     SubmissionDate |-> NoDate, AcceptanceDate |-> NoDate, Notes |-> <<>>,
     Deductions |-> EmptySlice, Credits |-> EmptySlice]

\* what a reader of the filing sees
FilingView(h, tf) ==
    [tf EXCEPT !.Deductions = Elements(h, tf.Deductions),
               !.Credits = Elements(h, tf.Credits)]

DeductionAmounts == 1..2

\* the arrays some slice of m refers to; the others are garbage
Referenced(m) ==
    ({m[n].Deductions.arr : n \in DOMAIN m} \cup {m[n].Credits.arr : n \in DOMAIN m})
        \ {NoArray}

\* position of array a among the referenced ones
Rank(m, a) == Cardinality({b \in Referenced(m) : b <= a})

Renumber(m, s) == IF s.arr = NoArray THEN s ELSE [s EXCEPT !.arr = Rank(m, @)]

\* the heap and the filings once the collector has dropped the garbage
CollectedHeap(h, m) ==
    [i \in 1..Cardinality(Referenced(m)) |->
        h[CHOOSE a \in Referenced(m) : Rank(m, a) = i]]

CollectedMem(m) ==
    [n \in DOMAIN m |-> [m[n] EXCEPT !.Deductions = Renumber(m, @),
                                     !.Credits = Renumber(m, @)]]

InitMem ==
    /\ heap = <<>>
    /\ mem = [n \in {"original"} |-> NewTaxFilingInMemory("F1")]
    /\ memRet = [op |-> "NewTaxFiling", on |-> "original", err |-> Nil]

\* the filing is new, or has been submitted before the calls the model follows
InitMemSubmitted ==
    /\ heap = <<>>
    /\ \E now \in Times :
          mem \in {[n \in {"original"} |-> NewTaxFilingInMemory("F1")],
                   [n \in {"original"} |->
                       SubmitFiling(NewTaxFilingInMemory("F1"), now).filing]}
    /\ memRet = [op |-> "NewTaxFiling", on |-> "original", err |-> Nil]

SlicesInRange(m) ==
    \A n \in DOMAIN m : m[n].Deductions.len + m[n].Credits.len <= MaxSlice

MemCall(op, on, h, m, err) ==
    /\ SlicesInRange(m)
    /\ heap' = CollectedHeap(h, m)
    /\ mem' = CollectedMem(m)
    /\ memRet' = [op |-> op, on |-> on, err |-> err]
    /\ UNCHANGED <<entityVars, bankVars, payVars, taxPaymentVars, taxRateVars, laterVars>>

CallAddDeduction(on, amount) ==
    LET r == SliceAppend(heap, mem[on].Deductions, amount) IN
    /\ on \in DOMAIN mem
    /\ MemCall("AddDeduction", on, r.heap,
               [mem EXCEPT ![on] = [@ EXCEPT !.Deductions = r.slice]], Nil)

CallAddCredit(on, amount) ==
    LET r == SliceAppend(heap, mem[on].Credits, amount) IN
    /\ on \in DOMAIN mem
    /\ MemCall("AddCredit", on, r.heap,
               [mem EXCEPT ![on] = [@ EXCEPT !.Credits = r.slice]], Nil)

\* amended := original.AmendFiling(), the copy getting the identity F2
CallAmendFiling ==
    /\ DOMAIN mem = {"original"}
    /\ MemCall("AmendFiling", "original", heap,
               [n \in {"original", "amended"} |->
                   IF n = "original" THEN mem["original"]
                   ELSE [AmendFiling(mem["original"], mem["original"].ID)
                            EXCEPT !.ID = "F2"]],
               Nil)

NextMem ==
    \/ \E on \in {"original", "amended"}, amount \in DeductionAmounts :
          CallAddDeduction(on, amount)
    \/ \E on \in {"original", "amended"}, amount \in ItemAmounts :
          CallAddCredit(on, amount)
    \/ CallAmendFiling

(***************************************************************************)
(* domain.TaxRate (treasury): applicability and calculation                *)
(***************************************************************************)
TaxBracketFlat        == "flat"
TaxBracketProgressive == "progressive"
TaxBracketTiered      == "tiered"
TaxBracketTypes == {TaxBracketFlat, TaxBracketProgressive, TaxBracketTiered}

ErrInvalidTaxRate == "invalid tax rate"

\* Rate is a float64; the model holds it as a number of quarters, so that
\* every rate is a float64 exactly and float64(amount) * Rate is exact:
\* Rate = n stands for n / RateDenominator, and the valid rates 0..1 are
\* the numerators 0..RateDenominator
RateDenominator == 4
RateOne == RateDenominator

\* the rates offered to NewTaxRate and UpdateTaxRate: one below 0, the valid
\* ones, one above 1
Rates == -1 .. (RateOne + 1)

BracketAmounts == 0 .. MaxBracket
TaxableAmounts == (0 - NegAmount) .. MaxTaxable

\* int64(float64(amount) * Rate): the product is exact, the conversion
\* truncates toward zero
Int64OfProduct(amount, rate) ==
    LET n == amount * rate
    IN  IF n >= 0 THEN n \div RateDenominator
                  ELSE 0 - ((0 - n) \div RateDenominator)

\* NewTaxRate: rejects a rate outside 0..1, takes the bracket as given
TaxRateResult(tr, err) == [rate |-> tr, err |-> err]

NewTaxRate(rate, bracketType, minAmount, maxAmount) ==
    IF rate < 0 \/ rate > RateOne
    THEN TaxRateResult([Rate |-> 0, BracketType |-> TaxBracketFlat,
                        MinAmount |-> 0, MaxAmount |-> 0], ErrInvalidTaxRate)
    ELSE TaxRateResult([Rate |-> rate, BracketType |-> bracketType,
                        MinAmount |-> minAmount, MaxAmount |-> maxAmount], Nil)

\* UpdateTaxRate: rejects a rate outside 0..1, else replaces the rate
UpdateTaxRate(tr, rate) ==
    IF rate < 0 \/ rate > RateOne
    THEN TaxRateResult(tr, ErrInvalidTaxRate)
    ELSE TaxRateResult([tr EXCEPT !.Rate = rate], Nil)

IsApplicable(tr, amount) ==
    IF tr.BracketType = TaxBracketFlat THEN TRUE
    ELSE IF tr.MinAmount > 0 /\ amount < tr.MinAmount THEN FALSE
    ELSE IF tr.MaxAmount > 0 /\ amount > tr.MaxAmount THEN FALSE
    ELSE TRUE

\* the amount a progressive rate taxes: the part above MinAmount, and
\* MaxAmount - MinAmount for an amount above MaxAmount
ProgressiveTaxableAmount(tr, amount) ==
    LET aboveMin == IF tr.MinAmount > 0
                    THEN (IF amount - tr.MinAmount < 0 THEN 0
                          ELSE amount - tr.MinAmount)
                    ELSE amount
    IN  IF tr.MaxAmount > 0 /\ amount > tr.MaxAmount
        THEN tr.MaxAmount - tr.MinAmount
        ELSE aboveMin

\* CalculateTax with a progressive rate taxing the whole amount
CalculateTaxOnWholeAmount(tr, amount) ==
    IF ~IsApplicable(tr, amount) THEN 0
    ELSE Int64OfProduct(amount, tr.Rate)

CalculateTax(tr, amount) ==
    IF ~IsApplicable(tr, amount) THEN 0
    ELSE IF tr.BracketType = TaxBracketProgressive
    THEN Int64OfProduct(ProgressiveTaxableAmount(tr, amount), tr.Rate)
    ELSE Int64OfProduct(amount, tr.Rate)

\* a progressive rate of one half on the amounts 1..3
InitTaxRate ==
    /\ taxRate = NewTaxRate(2, TaxBracketProgressive, 1, 3).rate
    /\ taxRateRet = [op |-> "NewTaxRate", amount |-> 0, tax |-> 0,
                     applicable |-> TRUE, err |-> Nil]

TaxRateCall(op, tr, amount, tax, applicable, err) ==
    /\ taxRate' = tr
    /\ taxRateRet' = [op |-> op, amount |-> amount, tax |-> tax,
                      applicable |-> applicable, err |-> err]
    /\ UNCHANGED <<entityVars, bankVars, payVars, taxPaymentVars, memVars, laterVars>>

\* a rejected NewTaxRate returns nil: the rate held stays the one before
CallNewTaxRate(rate, bracketType, minAmount, maxAmount) ==
    LET r == NewTaxRate(rate, bracketType, minAmount, maxAmount)
    IN  /\ TRUE
        /\ TaxRateCall("NewTaxRate", IF r.err = Nil THEN r.rate ELSE taxRate,
                       0, 0, TRUE, r.err)

CallUpdateTaxRate(rate) ==
    LET r == UpdateTaxRate(taxRate, rate)
    IN  /\ TRUE
        /\ TaxRateCall("UpdateTaxRate", r.rate, 0, 0, TRUE, r.err)

CallIsApplicable(amount) ==
    /\ TRUE
    /\ TaxRateCall("IsApplicable", taxRate, amount, 0,
                   IsApplicable(taxRate, amount), Nil)

CallCalculateTax(amount) ==
    /\ TRUE
    /\ TaxRateCall("CalculateTax", taxRate, amount, CalculateTax(taxRate, amount),
                   TRUE, Nil)

NextTaxRate ==
    \/ \E rate \in Rates, bracketType \in TaxBracketTypes,
          minAmount \in BracketAmounts, maxAmount \in BracketAmounts :
          CallNewTaxRate(rate, bracketType, minAmount, maxAmount)
    \/ \E rate \in Rates : CallUpdateTaxRate(rate)
    \/ \E amount \in TaxableAmounts : CallIsApplicable(amount)
    \/ \E amount \in TaxableAmounts : CallCalculateTax(amount)

(***************************************************************************)
(* Entity-level calls on one domain.Transaction (banking)                  *)
(***************************************************************************)
TransactionStatusFailed   == "failed"
TransactionStatusReversed == "reversed"
TransactionTypes ==
    {TransactionTypeDeposit, TransactionTypeWithdrawal, TransactionTypeTransfer}

MetadataKeys   == {"channel"}
MetadataValues == {"web", "branch"}

\* the transaction with the fields the service-level rows leave out: the
\* completion time (NoTime for nil) and the metadata map
WithCompletedAt(t) ==
    [Type |-> t.Type, Status |-> t.Status, AccountID |-> t.AccountID,
     SourceAccountID |-> t.SourceAccountID, TargetAccountID |-> t.TargetAccountID,
     Amount |-> t.Amount, CompletedAt |-> NoTime, Metadata |-> << >>]

TransactionComplete(t, now) == [Complete(t) EXCEPT !.CompletedAt = now]

Fail(t) == [t EXCEPT !.Status = TransactionStatusFailed]

Reverse(t) == [t EXCEPT !.Status = TransactionStatusReversed]

AddMetadata(t, key, value) ==
    [t EXCEPT !.Metadata = [k \in DOMAIN @ \cup {key} |->
                               IF k = key THEN value ELSE @[k]]]

InitTransaction ==
    /\ transaction = WithCompletedAt(NewTransaction(TransactionTypeDeposit, "A", 1))
    /\ transactionRet = [op |-> "NewTransaction"]

TransactionCall(op, t) ==
    /\ transaction' = t
    /\ transactionRet' = [op |-> op]
    /\ UNCHANGED <<earlierVars, rateStoreVars, taxpayerVars, deposits, furtherVars>>

CallNewTransaction(txType, accountID, amount) ==
    /\ TRUE
    /\ TransactionCall("NewTransaction",
                       WithCompletedAt(NewTransaction(txType, accountID, amount)))

CallComplete(now) ==
    /\ TRUE
    /\ TransactionCall("Complete", TransactionComplete(transaction, now))

CallFail ==
    /\ TRUE
    /\ TransactionCall("Fail", Fail(transaction))

CallReverse ==
    /\ TRUE
    /\ TransactionCall("Reverse", Reverse(transaction))

CallAddMetadata(key, value) ==
    /\ TRUE
    /\ TransactionCall("AddMetadata", AddMetadata(transaction, key, value))

NextTransaction ==
    \/ \E txType \in TransactionTypes, accountID \in AccountIDs, amount \in Amounts :
          CallNewTransaction(txType, accountID, amount)
    \/ \E now \in Times : CallComplete(now)
    \/ CallFail
    \/ CallReverse
    \/ \E key \in MetadataKeys, value \in MetadataValues : CallAddMetadata(key, value)

(***************************************************************************)
(* taxRateService over the tax rate repository (treasury)                  *)
(* fail as for accountService: the n-th repository call returns an error   *)
(***************************************************************************)
TaxStatusActive   == "active"
TaxStatusInactive == "inactive"
TaxStatusProposed == "proposed"
TaxStatusArchived == "archived"

TaxRateIDs == {"R1", "R2"}

\* the TaxRate NewTaxRate returns, with its status
WithStatus(tr) ==
    [Rate |-> tr.Rate, BracketType |-> tr.BracketType, MinAmount |-> tr.MinAmount,
     MaxAmount |-> tr.MaxAmount, Status |-> TaxStatusProposed]

ActivateTaxRate(tr) == [tr EXCEPT !.Status = TaxStatusActive]

DeactivateTaxRate(tr) == [tr EXCEPT !.Status = TaxStatusInactive]

ArchiveTaxRate(tr) == [tr EXCEPT !.Status = TaxStatusArchived]

RatesResult(store, err) == [rates |-> store, err |-> err]

CreateTaxRateResult(store, id, rate, bracketType, minAmount, maxAmount, fail) ==
    LET n == NewTaxRate(rate, bracketType, minAmount, maxAmount) IN
    IF n.err # Nil
    THEN RatesResult(store, n.err)
    ELSE IF fail = 1
    THEN RatesResult(store, ErrCreate)
    ELSE RatesResult(Insert(store, id, WithStatus(n.rate)), Nil)

UpdateTaxRateResult(store, id, rate, fail) ==
    IF RowMissing(store, id, fail = 1)
    THEN RatesResult(store, ErrGetByID)
    ELSE LET u == UpdateTaxRate(store[id], rate) IN
         IF u.err # Nil
         THEN RatesResult(store, u.err)
         ELSE IF fail = 2
         THEN RatesResult(store, ErrUpdate)
         ELSE RatesResult(Update(store, id, u.rate), Nil)

\* ActivateTaxRate, DeactivateTaxRate and ArchiveTaxRate: read the row, call
\* the method (tr the rate after it), write the row
StatusRequestResult(store, id, tr, fail) ==
    IF RowMissing(store, id, fail = 1)
    THEN RatesResult(store, ErrGetByID)
    ELSE IF fail = 2
    THEN RatesResult(store, ErrUpdate)
    ELSE RatesResult(Update(store, id, tr), Nil)

InitTaxRates ==
    /\ taxRates = [i \in {} |-> 0]
    /\ taxRatesRet = [op |-> "none", id |-> "", err |-> Nil]

RatesWrite(op, id, r) ==
    /\ taxRates' = r.rates
    /\ taxRatesRet' = [op |-> op, id |-> id, err |-> r.err]
    /\ UNCHANGED <<earlierVars, transactionVars, taxpayerVars, deposits, furtherVars>>

CreateTaxRate(id, rate, bracketType, minAmount, maxAmount, fail) ==
    /\ id \notin DOMAIN taxRates
    /\ RatesWrite("CreateTaxRate", id,
                  CreateTaxRateResult(taxRates, id, rate, bracketType,
                                      minAmount, maxAmount, fail))

TaxRateServiceUpdateTaxRate(id, rate, fail) ==
    /\ TRUE
    /\ RatesWrite("UpdateTaxRate", id, UpdateTaxRateResult(taxRates, id, rate, fail))

TaxRateServiceActivateTaxRate(id, fail) ==
    /\ TRUE
    /\ RatesWrite("ActivateTaxRate", id,
                  StatusRequestResult(taxRates, id,
                     IF id \in DOMAIN taxRates THEN ActivateTaxRate(taxRates[id]) ELSE 0,
                     fail))

TaxRateServiceDeactivateTaxRate(id, fail) ==
    /\ TRUE
    /\ RatesWrite("DeactivateTaxRate", id,
                  StatusRequestResult(taxRates, id,
                     IF id \in DOMAIN taxRates THEN DeactivateTaxRate(taxRates[id]) ELSE 0,
                     fail))

TaxRateServiceArchiveTaxRate(id, fail) ==
    /\ TRUE
    /\ RatesWrite("ArchiveTaxRate", id,
                  StatusRequestResult(taxRates, id,
                     IF id \in DOMAIN taxRates THEN ArchiveTaxRate(taxRates[id]) ELSE 0,
                     fail))

\* flat rates and progressive rates on 1..3 are created
NextTaxRates ==
    \/ \E id \in TaxRateIDs, rate \in {-1, 1},
          bracketType \in {TaxBracketFlat, TaxBracketProgressive}, fail \in 0..1 :
          CreateTaxRate(id, rate, bracketType, 1, 3, fail)
    \/ \E id \in TaxRateIDs, rate \in {-1, 1, 2}, fail \in 0..2 :
          TaxRateServiceUpdateTaxRate(id, rate, fail)
    \/ \E id \in TaxRateIDs, fail \in 0..2 : TaxRateServiceActivateTaxRate(id, fail)
    \/ \E id \in TaxRateIDs, fail \in 0..2 : TaxRateServiceDeactivateTaxRate(id, fail)
    \/ \E id \in TaxRateIDs, fail \in 0..2 : TaxRateServiceArchiveTaxRate(id, fail)

(***************************************************************************)
(* domain.Taxpayer (treasury): the exemption codes                         *)
(***************************************************************************)
ExemptionCodes == {"VET", "EDU", "NPO"}

\* the lists of codes without a repeated code
RECURSIVE DuplicateFree(_)
DuplicateFree(codes) ==
    IF codes = <<>> THEN TRUE
    ELSE /\ \A i \in 2..Len(codes) : codes[i] # Head(codes)
         /\ DuplicateFree(Tail(codes))

CodeLists ==
    {codes \in UNION {[1..n -> ExemptionCodes] : n \in 0..Cardinality(ExemptionCodes)} :
        DuplicateFree(codes)}

NewTaxpayer(exemptionCodes) == [ExemptionCodes |-> exemptionCodes]

HasExemption(tp, code) ==
    \E i \in 1..Len(tp.ExemptionCodes) : tp.ExemptionCodes[i] = code

\* AddExemption appending without the search for the code
AddExemptionUnchecked(tp, code) ==
    [tp EXCEPT !.ExemptionCodes = Append(@, code)]

AddExemption(tp, code) ==
    IF HasExemption(tp, code) THEN tp
    ELSE [tp EXCEPT !.ExemptionCodes = Append(@, code)]

\* RemoveExemption: the first element equal to code is overwritten with the
\* last one and the list loses its last element
RemoveExemption(tp, code) ==
    IF ~HasExemption(tp, code) THEN tp
    ELSE LET codes == tp.ExemptionCodes
             i == CHOOSE k \in 1..Len(codes) :
                     /\ codes[k] = code
                     /\ \A j \in 1..(k - 1) : codes[j] # code
             moved == [codes EXCEPT ![i] = codes[Len(codes)]]
         IN  [tp EXCEPT !.ExemptionCodes = SubSeq(moved, 1, Len(codes) - 1)]

InitTaxpayer ==
    /\ taxpayer = NewTaxpayer(<<>>)
    /\ taxpayerRet = [op |-> "NewTaxpayer", code |-> "", has |-> FALSE]
    /\ granted = {}

\* has: whether the call found the code in the list
TaxpayerCall(op, code, tp, has, g) ==
    /\ taxpayer' = tp
    /\ taxpayerRet' = [op |-> op, code |-> code, has |-> has]
    /\ granted' = g
    /\ UNCHANGED <<earlierVars, transactionVars, rateStoreVars, deposits, furtherVars>>

CallNewTaxpayer(exemptionCodes) ==
    /\ TRUE
    /\ TaxpayerCall("NewTaxpayer", "", NewTaxpayer(exemptionCodes), FALSE,
                    {exemptionCodes[i] : i \in 1..Len(exemptionCodes)})

CallHasExemption(code) ==
    /\ TRUE
    /\ TaxpayerCall("HasExemption", code, taxpayer, HasExemption(taxpayer, code), granted)

CallAddExemption(code) ==
    /\ TRUE
    /\ TaxpayerCall("AddExemption", code, AddExemption(taxpayer, code),
                    HasExemption(taxpayer, code),
                    granted \cup {code})

CallRemoveExemption(code) ==
    /\ TRUE
    /\ TaxpayerCall("RemoveExemption", code, RemoveExemption(taxpayer, code),
                    HasExemption(taxpayer, code),
                    granted \ {code})

\* a taxpayer is created with a list that holds no code twice
NextTaxpayer ==
    \/ \E exemptionCodes \in CodeLists : CallNewTaxpayer(exemptionCodes)
    \/ \E code \in ExemptionCodes : CallHasExemption(code)
    \/ \E code \in ExemptionCodes : CallAddExemption(code)
    \/ \E code \in ExemptionCodes : CallRemoveExemption(code)

(***************************************************************************)
(* accountService.Deposit called by two clients at once (banking)          *)
(* A call reads the row (GetByID), adds to its own copy (Account.Deposit)  *)
(* and writes the copy back (Update); the calls of the two clients         *)
(* interleave between the read and the write. No repository call fails.    *)
(***************************************************************************)
Clients == {1, 2}

DepositAmounts == {1, 2}

NoCall ==
    [pc |-> "idle", id |-> NoAccount, amount |-> 0, account |-> NewAccount, err |-> Nil]

\* GetByID and Account.Deposit: the call's copy of the row after the
\* deposit, or the error that ends the call
DepositRead(store, accountID, amount) ==
    IF GetByIDFails(store, accountID, FALSE)
    THEN [pc |-> "done", id |-> accountID, amount |-> amount,
          account |-> NewAccount, err |-> ErrGetByID]
    ELSE LET r == Deposit(store[accountID], amount) IN
         [pc |-> IF r.err = Nil THEN "read" ELSE "done",
          id |-> accountID, amount |-> amount, account |-> r.acc, err |-> r.err]

\* an Update that adds the amount to the stored balance
DepositUpdateAdding(store, call) ==
    [store EXCEPT ![call.id].Balance = @ + call.amount]

\* accountRepo.Update: the call's copy replaces the stored row
DepositUpdate(store, call) == Update(store, call.id, call.account)

InitDeposits == deposits = [c \in Clients |-> NoCall]

\* client c calls Deposit, which runs up to its Update
DepositBegins(c, accountID, amount) ==
    /\ deposits[c].pc # "read"
    /\ deposits' = [deposits EXCEPT ![c] = DepositRead(accounts, accountID, amount)]
    /\ UNCHANGED <<earlierVars, transactionVars, rateStoreVars, taxpayerVars, furtherVars>>

\* the Deposit of client c runs from its Update to its return
DepositEnds(c) ==
    /\ deposits[c].pc = "read"
    /\ BalancesInRange(DepositUpdate(accounts, deposits[c]))
    /\ accounts' = DepositUpdate(accounts, deposits[c])
    /\ deposits' = [deposits EXCEPT ![c].pc = "done",
                                    ![c].err = ErrTxRepoNotImplemented]
    /\ UNCHANGED <<transactions, ret, accountDetails, entityVars, payVars,
                   taxPaymentVars, memVars, taxRateVars,
                   transactionVars, rateStoreVars, taxpayerVars, furtherVars>>

NextDeposits ==
    \/ \E id \in AccountIDs : CreateAccount(id, "main", 0)
    \/ \E id \in AccountIDs : CloseAccount(id, 1, 0)
    \/ \E c \in Clients, id \in AccountIDs, amount \in DepositAmounts :
          DepositBegins(c, id, amount)
    \/ \E c \in Clients : DepositEnds(c)

(***************************************************************************)
(* accountService.Deposit, Withdraw and Transfer called by two clients at  *)
(* once (banking). Every GetByID and every Update is a step of its own;    *)
(* what a call computes on its copies between two repository calls belongs *)
(* to the step of the repository call before it. Amounts are positive and  *)
(* no repository call fails; a call that returns before its first Update   *)
(* leaves nothing behind.                                                  *)
(***************************************************************************)
NoRequest ==
    [pc |-> "idle", op |-> "", id |-> NoAccount, target |-> NoAccount, amount |-> 0,
     account |-> NewAccount, targetAccount |-> NewAccount]

Request(pc, op, id, target, amount, account, targetAccount) ==
    [pc |-> pc, op |-> op, id |-> id, target |-> target, amount |-> amount,
     account |-> account, targetAccount |-> targetAccount]

\* Deposit from its GetByID up to its Update
DepositLoaded(store, accountID, amount) ==
    IF GetByIDFails(store, accountID, FALSE)
    THEN NoRequest
    ELSE LET r == Deposit(store[accountID], amount) IN
         IF r.err # Nil
         THEN NoRequest
         ELSE Request("read", "Deposit", accountID, NoAccount, amount, r.acc, NewAccount)

\* Withdraw from its GetByID up to its Update
WithdrawLoaded(store, accountID, amount) ==
    IF GetByIDFails(store, accountID, FALSE)
    THEN NoRequest
    ELSE LET r == Withdraw(store[accountID], amount) IN
         IF r.err # Nil
         THEN NoRequest
         ELSE Request("read", "Withdraw", accountID, NoAccount, amount, r.acc, NewAccount)

\* Transfer: the GetByID of the source
TransferSourceLoaded(store, sourceID, targetID, amount) ==
    IF GetByIDFails(store, sourceID, FALSE)
    THEN NoRequest
    ELSE Request("source", "Transfer", sourceID, targetID, amount,
                 store[sourceID], NewAccount)

\* Transfer: the GetByID of the target, the two IsActive checks, and Withdraw
\* and Deposit on the two copies
TransferLoaded(store, call) ==
    IF GetByIDFails(store, call.target, FALSE)
    THEN NoRequest
    ELSE IF ~IsActive(call.account) \/ ~IsActive(store[call.target])
    THEN NoRequest
    ELSE LET w == Withdraw(call.account, call.amount)
             d == Deposit(store[call.target], call.amount)
         IN
         IF w.err # Nil \/ d.err # Nil
         THEN NoRequest
         ELSE [call EXCEPT !.pc = "read", !.account = w.acc, !.targetAccount = d.acc]

\* an Update that applies the amount of the call to the stored balance
RequestUpdateByAmount(store, call, accountID, account) ==
    [store EXCEPT ![accountID].Balance =
        IF call.op = "Deposit" \/ (call.op = "Transfer" /\ call.pc = "half")
        THEN @ + call.amount
        ELSE @ - call.amount]

\* accountRepo.Update with the copy the call holds
RequestUpdate(store, call, accountID, account) == Update(store, accountID, account)

\* the call after its first Update: a Transfer has its target left to write
AfterUpdate(call) ==
    IF call.op = "Transfer" THEN [call EXCEPT !.pc = "half"] ELSE NoRequest

\* the amounts persisted, after the first Update of the call
Counted(m, call) ==
    IF call.op = "Deposit"
    THEN [m EXCEPT ![call.id].deposited = @ + call.amount]
    ELSE IF call.op = "Withdraw"
    THEN [m EXCEPT ![call.id].withdrawn = @ + call.amount]
    ELSE m

InitCalls ==
    /\ calls = [c \in Clients |-> NoRequest]
    /\ tally = [id \in AccountIDs |-> [deposited |-> 0, withdrawn |-> 0]]

settledVars ==
    <<entityVars, payVars, taxPaymentVars, memVars, taxRateVars, transactionVars,
      rateStoreVars, taxpayerVars, deposits>>

besideAccounts ==
    <<transactions, ret, accountDetails, settledVars, ledgerVars, filingCalls, parkVars>>

\* the copies a call holds are within the balances of the model
CopiesInRange(call) ==
    InBalanceRange(call.account.Balance) /\ InBalanceRange(call.targetAccount.Balance)

\* client c, with no call under way, makes the call that reaches state call
ClientCalls(c, call) ==
    /\ calls[c].pc = "idle"
    /\ CopiesInRange(call)
    /\ calls' = [calls EXCEPT ![c] = call]
    /\ UNCHANGED <<accounts, tally, besideAccounts>>

ClientDeposits(c, accountID, amount) ==
    /\ TRUE
    /\ ClientCalls(c, DepositLoaded(accounts, accountID, amount))

ClientWithdraws(c, accountID, amount) ==
    /\ TRUE
    /\ ClientCalls(c, WithdrawLoaded(accounts, accountID, amount))

ClientTransfers(c, sourceID, targetID, amount) ==
    /\ TRUE
    /\ ClientCalls(c, TransferSourceLoaded(accounts, sourceID, targetID, amount))

\* the Transfer of client c goes on from the GetByID of its target
ClientLoadsTarget(c) ==
    /\ calls[c].pc = "source"
    /\ CopiesInRange(TransferLoaded(accounts, calls[c]))
    /\ calls' = [calls EXCEPT ![c] = TransferLoaded(accounts, calls[c])]
    /\ UNCHANGED <<accounts, tally, besideAccounts>>

\* the call of client c makes its first Update and, if that was its last
\* repository call, returns
ClientUpdates(c) ==
    /\ calls[c].pc = "read"
    /\ accounts' = RequestUpdate(accounts, calls[c], calls[c].id, calls[c].account)
    /\ calls' = [calls EXCEPT ![c] = AfterUpdate(@)]
    /\ UNCHANGED <<tally, besideAccounts>>

\* the same step of a Deposit or Withdraw, with its amount added to the history
TellerUpdates(c) ==
    /\ calls[c].pc = "read"
    /\ \A id \in AccountIDs :
          Counted(tally, calls[c])[id].deposited <= MaxMoved
          /\ Counted(tally, calls[c])[id].withdrawn <= MaxMoved
    /\ accounts' = RequestUpdate(accounts, calls[c], calls[c].id, calls[c].account)
    /\ calls' = [calls EXCEPT ![c] = AfterUpdate(@)]
    /\ tally' = Counted(tally, calls[c])
    /\ UNCHANGED besideAccounts

\* the Transfer of client c makes its second Update and returns
ClientUpdatesTarget(c) ==
    /\ calls[c].pc = "half"
    /\ accounts' = RequestUpdate(accounts, calls[c], calls[c].target,
                                 calls[c].targetAccount)
    /\ calls' = [calls EXCEPT ![c] = NoRequest]
    /\ UNCHANGED <<tally, besideAccounts>>

PositiveAmounts == {1, 2}

\* Deposit and Withdraw calls of two clients
NextTellers ==
    \/ \E id \in AccountIDs : CreateAccount(id, "main", 0)
    \/ \E c \in Clients, id \in AccountIDs, amount \in PositiveAmounts :
          ClientDeposits(c, id, amount)
    \/ \E c \in Clients, id \in AccountIDs, amount \in PositiveAmounts :
          ClientWithdraws(c, id, amount)
    \/ \E c \in Clients : TellerUpdates(c)

\* Deposit, Withdraw and Transfer calls of two clients
NextConcurrent ==
    \/ \E id \in AccountIDs : CreateAccount(id, "main", 0)
    \/ \E c \in Clients, id \in AccountIDs, amount \in PositiveAmounts :
          ClientDeposits(c, id, amount)
    \/ \E c \in Clients, id \in AccountIDs, amount \in PositiveAmounts :
          ClientWithdraws(c, id, amount)
    \/ \E c \in Clients, s \in AccountIDs, t \in AccountIDs, amount \in PositiveAmounts :
          ClientTransfers(c, s, t, amount)
    \/ \E c \in Clients : ClientLoadsTarget(c)
    \/ \E c \in Clients : ClientUpdates(c)
    \/ \E c \in Clients : ClientUpdatesTarget(c)

(***************************************************************************)
(* transactionService.CreateTransaction over the account and transaction   *)
(* repositories (banking). fails is the set of the repository calls of the *)
(* request that return an error, counted in the order the request makes    *)
(* them: 1 the account's GetByID, 2 the transaction's Create, then either   *)
(* 3 the Update of the failed transaction, or 3 the account's Update and   *)
(* 4 the Update of the failed or completed transaction.                    *)
(***************************************************************************)
TransactionIDs == {"T1", "T2"}

FailurePatterns == SUBSET (1..4)

LedgerResult(store, txs, err) == [accounts |-> store, ledger |-> txs, err |-> err]

\* the switch on the transaction type: Deposit or Withdraw on the copy of
\* the account, nothing for a transfer
Processed(account, txType, amount) ==
    IF txType = TransactionTypeDeposit THEN Deposit(account, amount)
    ELSE IF txType = TransactionTypeWithdrawal THEN Withdraw(account, amount)
    ELSE [acc |-> account, err |-> Nil]

CreateTransactionResult(store, txs, id, txType, accountID, amount, fails) ==
    IF GetByIDFails(store, accountID, 1 \in fails)
    THEN LedgerResult(store, txs, ErrGetByID)
    ELSE IF 2 \in fails
    THEN LedgerResult(store, txs, ErrCreate)
    ELSE LET tx          == NewTransaction(txType, accountID, amount)
             created     == Insert(txs, id, tx)
             r           == Processed(store[accountID], txType, amount)
         IN
         IF r.err # Nil
         THEN LedgerResult(store,
                           IF 3 \in fails THEN created
                           ELSE [created EXCEPT ![id] = Fail(tx)],
                           r.err)
         ELSE IF 3 \in fails
         THEN LedgerResult(store,
                           IF 4 \in fails THEN created
                           ELSE [created EXCEPT ![id] = Fail(tx)],
                           ErrUpdate)
         ELSE IF 4 \in fails
         THEN LedgerResult(Update(store, accountID, r.acc), created, ErrUpdate)
         ELSE LedgerResult(Update(store, accountID, r.acc),
                           [created EXCEPT ![id] = Complete(tx)],
                           Nil)

InitLedger ==
    /\ ledger = << >>
    /\ ledgerRet = [op |-> "none", id |-> "", err |-> Nil]

\* id is the ID uuid.New gives the transaction
CreateTransaction(id, txType, accountID, amount, fails) ==
    LET r == CreateTransactionResult(accounts, ledger, id, txType, accountID, amount, fails) IN
    /\ id \notin DOMAIN ledger
    /\ BalancesInRange(r.accounts)
    /\ accounts' = r.accounts
    /\ ledger' = r.ledger
    /\ ledgerRet' = [op |-> "CreateTransaction", id |-> id, err |-> r.err]
    /\ UNCHANGED <<transactions, ret, accountDetails, settledVars, tellerVars, filingCalls,
                   parkVars>>

NextLedger ==
    \/ \E id \in AccountIDs : CreateAccount(id, "main", 0)
    \/ \E id \in AccountIDs : CloseAccount(id, 1, 0)
    \/ \E id \in TransactionIDs, txType \in TransactionTypes, accountID \in AccountIDs,
          amount \in PositiveAmounts, fails \in FailurePatterns :
          CreateTransaction(id, txType, accountID, amount, fails)

(***************************************************************************)
(* taxFilingService.UpdateTaxFilingAmounts, AddDeduction, AddCredit and    *)
(* SubmitTaxFiling called by two clients at once (treasury). A call reads  *)
(* the filing (GetByID), checks and changes its copy, and writes the copy  *)
(* back (Update, which sets every column of the row, status included); the *)
(* calls interleave between the read and the write. No repository call     *)
(* fails; a call that returns before its Update leaves nothing behind.     *)
(***************************************************************************)
NoFilingCall == [pc |-> "idle", op |-> "", id |-> NoFiling]

\* the call from its GetByID up to its Update, r being what the request
\* would store if it ran alone
FilingLoaded(op, id, r) ==
    IF r.err # Nil
    THEN NoFilingCall
    ELSE [pc |-> "read", op |-> op, id |-> id, filing |-> r.filings[id]]

InitFilingCalls == filingCalls = [c \in Clients |-> NoFilingCall]

besideFilings ==
    <<payments, payRet, entityVars, bankVars, taxPaymentVars, memVars, taxRateVars,
      transactionVars, rateStoreVars, taxpayerVars, deposits, tellerVars, ledgerVars,
      parkVars>>

\* client c, with no call under way, makes the call that reaches state call
ClientCallsFiling(c, call) ==
    /\ filingCalls[c].pc = "idle"
    /\ call.pc = "read" =>
          Len(call.filing.Deductions) + Len(call.filing.Credits) <= MaxItems
    /\ filingCalls' = [filingCalls EXCEPT ![c] = call]
    /\ UNCHANGED <<filings, besideFilings>>

ClientUpdatesAmounts(c, id, req) ==
    /\ TRUE
    /\ ClientCallsFiling(c, FilingLoaded("UpdateTaxFilingAmounts", id,
                            UpdateTaxFilingAmountsResult(payments, filings, id, req, 0)))

ClientAddsDeduction(c, id, amount) ==
    /\ TRUE
    /\ ClientCallsFiling(c, FilingLoaded("AddDeduction", id,
                            AddDeductionResult(payments, filings, id, amount, 0)))

ClientAddsCredit(c, id, amount) ==
    /\ TRUE
    /\ ClientCallsFiling(c, FilingLoaded("AddCredit", id,
                            AddCreditResult(payments, filings, id, amount, 0)))

ClientSubmits(c, id, now) ==
    /\ TRUE
    /\ ClientCallsFiling(c, FilingLoaded("SubmitTaxFiling", id,
                            SubmitTaxFilingResult(payments, filings, id, now, 0)))

\* the call of client c makes its Update and returns
ClientStoresFiling(c) ==
    /\ filingCalls[c].pc = "read"
    /\ filings' = [filings EXCEPT ![filingCalls[c].id] = filingCalls[c].filing]
    /\ filingCalls' = [filingCalls EXCEPT ![c] = NoFilingCall]
    /\ UNCHANGED besideFilings

NextFilingRace ==
    \/ \E id \in FilingIDs : CreateTaxFiling(id, 1, 2, 0)
    \/ \E c \in Clients, id \in FilingIDs, req \in IncomeRequests :
          ClientUpdatesAmounts(c, id, req)
    \/ \E c \in Clients, id \in FilingIDs, amount \in ItemAmounts :
          ClientAddsDeduction(c, id, amount)
    \/ \E c \in Clients, id \in FilingIDs, amount \in ItemAmounts :
          ClientAddsCredit(c, id, amount)
    \/ \E c \in Clients, id \in FilingIDs, now \in Times : ClientSubmits(c, id, now)
    \/ \E c \in Clients : ClientStoresFiling(c)

(***************************************************************************)
(* parking: domain.Garage, domain.ParkingSession and parkingSessionService *)
(* over the garage, vehicle and session repositories. Of a session the     *)
(* model keeps the garage and the status; the times, the duration and the  *)
(* amount charged are left out. fails is the set of the repository calls   *)
(* of the request that return an error, counted in the order the request   *)
(* makes them, the calls of restoreGarageSpace included.                   *)
(***************************************************************************)
GarageStatusOperational == "operational"
GarageStatusMaintenance == "maintenance"

SessionStatusActive    == "active"
SessionStatusCompleted == "completed"
SessionStatusCancelled == "cancelled"

ErrGarageNotOperational == "garage is not operational"
ErrGarageCapacityFull   == "garage capacity is full"
ErrSessionAlreadyEnded  == "parking session already ended"

GarageIDs  == {"G1", "G2"}
SessionIDs == {"S1", "S2", "S3"}
Vehicles   == {"V1"}          \* the rows of the vehicle repository
VehicleIDs == {"V1", "V9"}    \* the vehicles requests name

NewGarage(totalSpaces) ==
    [Status |-> GarageStatusOperational, TotalSpaces |-> totalSpaces,
     AvailableSpaces |-> totalSpaces]

IsOperational(g) == g.Status = GarageStatusOperational

UpdateStatus(g, status) == [g EXCEPT !.Status = status]

DecrementAvailableSpaces(g) ==
    IF g.AvailableSpaces <= 0
    THEN [garage |-> g, err |-> ErrGarageCapacityFull]
    ELSE [garage |-> [g EXCEPT !.AvailableSpaces = @ - 1], err |-> Nil]

IncrementAvailableSpaces(g) ==
    IF g.AvailableSpaces < g.TotalSpaces
    THEN [g EXCEPT !.AvailableSpaces = @ + 1]
    ELSE g

NewParkingSession(garageID) == [GarageID |-> garageID, Status |-> SessionStatusActive]

\* an EndSession that does not look at the status
EndSessionAnyStatus(s) ==
    [session |-> [s EXCEPT !.Status = SessionStatusCompleted], err |-> Nil]

EndSession(s) ==
    IF s.Status # SessionStatusActive
    THEN [session |-> s, err |-> ErrSessionAlreadyEnded]
    ELSE [session |-> [s EXCEPT !.Status = SessionStatusCompleted], err |-> Nil]

CancelSession(s) ==
    IF s.Status # SessionStatusActive
    THEN [session |-> s, err |-> ErrSessionAlreadyEnded]
    ELSE [session |-> [s EXCEPT !.Status = SessionStatusCancelled], err |-> Nil]

ParkResult(gs, ss, err) == [garages |-> gs, sessions |-> ss, err |-> err]

\* the garage rows after restoreGarageSpace, whose error the callers drop
\* or log
restoreGarageSpace(gs, garageID, getFails, updateFails) ==
    IF RowMissing(gs, garageID, getFails) \/ updateFails
    THEN gs
    ELSE [gs EXCEPT ![garageID] = IncrementAvailableSpaces(@)]

CreateGarageResult(gs, ss, id, totalSpaces) ==
    ParkResult(Insert(gs, id, NewGarage(totalSpaces)), ss, Nil)

UpdateGarageStatusResult(gs, ss, id, status) ==
    IF RowMissing(gs, id, FALSE)
    THEN ParkResult(gs, ss, ErrGetByID)
    ELSE ParkResult([gs EXCEPT ![id] = UpdateStatus(@, status)], ss, Nil)

StartSessionResult(gs, ss, id, garageID, vehicleID, fails) ==
    IF RowMissing(gs, garageID, 1 \in fails)
    THEN ParkResult(gs, ss, ErrGetByID)
    ELSE IF ~IsOperational(gs[garageID])
    THEN ParkResult(gs, ss, ErrGarageNotOperational)
    ELSE LET d   == DecrementAvailableSpaces(gs[garageID])
             dec == [gs EXCEPT ![garageID] = d.garage]
         IN
         IF d.err # Nil
         THEN ParkResult(gs, ss, d.err)
         ELSE IF 2 \in fails
         THEN ParkResult(gs, ss, ErrUpdate)
         ELSE IF vehicleID \notin Vehicles \/ 3 \in fails
         THEN ParkResult(restoreGarageSpace(dec, garageID, 4 \in fails, 5 \in fails),
                         ss, ErrGetByID)
         ELSE IF 4 \in fails
         THEN ParkResult(restoreGarageSpace(dec, garageID, 5 \in fails, 6 \in fails),
                         ss, ErrCreate)
         ELSE ParkResult(dec, Insert(ss, id, NewParkingSession(garageID)), Nil)

EndSessionResult(gs, ss, id, fails) ==
    IF RowMissing(ss, id, 1 \in fails)
    THEN ParkResult(gs, ss, ErrGetByID)
    ELSE IF RowMissing(gs, ss[id].GarageID, 2 \in fails)
    THEN ParkResult(gs, ss, ErrGetByID)
    ELSE LET e == EndSession(ss[id]) IN
         IF e.err # Nil
         THEN ParkResult(gs, ss, e.err)
         ELSE IF 3 \in fails
         THEN ParkResult(gs, ss, ErrUpdate)
         ELSE ParkResult(restoreGarageSpace(gs, ss[id].GarageID, 4 \in fails, 5 \in fails),
                         [ss EXCEPT ![id] = e.session], Nil)

CancelSessionResult(gs, ss, id, fails) ==
    IF RowMissing(ss, id, 1 \in fails)
    THEN ParkResult(gs, ss, ErrGetByID)
    ELSE LET e == CancelSession(ss[id]) IN
         IF e.err # Nil
         THEN ParkResult(gs, ss, e.err)
         ELSE IF 2 \in fails
         THEN ParkResult(gs, ss, ErrUpdate)
         ELSE ParkResult(restoreGarageSpace(gs, ss[id].GarageID, 3 \in fails, 4 \in fails),
                         [ss EXCEPT ![id] = e.session], Nil)

InitParking ==
    /\ garages = << >>
    /\ sessions = << >>
    /\ parkRet = [op |-> "none", id |-> "", garage |-> "", err |-> Nil]

\* the stores and the returned value after a request with outcome r
ParkWrite(op, id, garageID, r) ==
    /\ garages' = r.garages
    /\ sessions' = r.sessions
    /\ parkRet' = [op |-> op, id |-> id, garage |-> garageID, err |-> r.err]
    /\ UNCHANGED <<bankVars, settledVars, tellerVars, ledgerVars, filingCalls>>

\* id is the ID uuid.New gives the garage
CreateGarage(id, totalSpaces) ==
    /\ id \notin DOMAIN garages
    /\ ParkWrite("CreateGarage", id, id, CreateGarageResult(garages, sessions, id, totalSpaces))

UpdateGarageStatus(id, status) ==
    /\ TRUE
    /\ ParkWrite("UpdateGarageStatus", id, id,
                 UpdateGarageStatusResult(garages, sessions, id, status))

\* id is the ID uuid.New gives the session
StartSession(id, garageID, vehicleID, fails) ==
    /\ id \notin DOMAIN sessions
    /\ ParkWrite("StartSession", id, garageID,
                 StartSessionResult(garages, sessions, id, garageID, vehicleID, fails))

ParkingSessionServiceEndSession(id, fails) ==
    /\ TRUE
    /\ ParkWrite("EndSession", id, "", EndSessionResult(garages, sessions, id, fails))

ParkingSessionServiceCancelSession(id, fails) ==
    /\ TRUE
    /\ ParkWrite("CancelSession", id, "", CancelSessionResult(garages, sessions, id, fails))

\* the parking requests on the garages of Garages, the repository calls of
\* StartSession failing in one of Patterns
NextParkingOf(Garages, Patterns) ==
    \/ \E id \in Garages, totalSpaces \in 0..MaxSpaces : CreateGarage(id, totalSpaces)
    \/ \E id \in Garages, status \in {GarageStatusOperational, GarageStatusMaintenance} :
          UpdateGarageStatus(id, status)
    \/ \E id \in SessionIDs, garageID \in Garages, vehicleID \in VehicleIDs,
          fails \in Patterns :
          StartSession(id, garageID, vehicleID, fails)
    \/ \E id \in SessionIDs : ParkingSessionServiceEndSession(id, {})
    \/ \E id \in SessionIDs : ParkingSessionServiceCancelSession(id, {})

NextParking == NextParkingOf(GarageIDs, {{}})

NextParkingFailures == NextParkingOf({"G1"}, SUBSET (1..6))

(***************************************************************************)
(* Specifications                                                          *)
(***************************************************************************)
\* the values every specification starts the later entities from
InitLater ==
    /\ InitTransaction /\ InitTaxRates /\ InitTaxpayer /\ InitDeposits /\ InitCalls
    /\ InitLedger /\ InitFilingCalls /\ InitParking

Init ==
    /\ InitAccount /\ InitBank /\ InitPay /\ InitTaxPayment /\ InitMem /\ InitTaxRate
    /\ InitLater

\* the same with the one Account a new one
InitTreasury == Init /\ acct = NewAccount

\* the same with the in-memory filing new or submitted
InitAmend ==
    /\ InitAccount /\ acct = NewAccount
    /\ InitBank /\ InitPay /\ InitTaxPayment /\ InitMemSubmitted /\ InitTaxRate
    /\ InitLater

\* AccountService requests, one at a time
Spec == Init /\ [][NextBank]_vars

\* calls on one Account entity
SpecAccount == Init /\ [][NextAccount]_vars

\* TaxPaymentService requests, one at a time, repository calls may fail
SpecPay == Init /\ [][NextPay]_vars

\* TaxPaymentService requests, one at a time, every repository call succeeds
SpecPayNoFailure == Init /\ [][NextPayNoFailure]_vars

\* calls on one TaxPayment entity
SpecTaxPayment == InitTreasury /\ [][NextTaxPayment]_vars

\* TaxFilingService requests, one at a time, repository calls may fail
SpecFiling == InitTreasury /\ [][NextFiling]_vars

\* calls on an in-memory TaxFiling and on the copy AmendFiling made of it
SpecAmend == InitAmend /\ [][NextMem]_vars

\* calls on one TaxRate
SpecTaxRate == InitTreasury /\ [][NextTaxRate]_vars

\* AccountService requests with the Name and ClosedAt columns
SpecAccountDetails == InitTreasury /\ [][NextAccountDetails]_vars

\* TaxRateService requests, one at a time, repository calls may fail
SpecTaxRates == InitTreasury /\ [][NextTaxRates]_vars

\* calls on one Taxpayer
SpecTaxpayer == InitTreasury /\ [][NextTaxpayer]_vars

\* two clients of AccountService.Deposit, their calls interleaved
SpecDeposits == InitTreasury /\ [][NextDeposits]_vars

\* two clients of AccountService.Deposit and Withdraw, their calls interleaved
SpecTellers == InitTreasury /\ [][NextTellers]_vars

\* two clients of AccountService.Deposit, Withdraw and Transfer
SpecConcurrent == InitTreasury /\ [][NextConcurrent]_vars

\* requests to TransactionService.CreateTransaction, with repository failures
SpecLedger == InitTreasury /\ [][NextLedger]_vars

\* requests to TaxFilingService, amended filings amended again
SpecAmended == InitTreasury /\ [][NextAmended]_vars

\* two clients of TaxFilingService on the same filing, their calls interleaved
SpecFilingRace == InitTreasury /\ [][NextFilingRace]_vars

\* parking requests one at a time, every repository call succeeding
SpecParking == InitTreasury /\ [][NextParking]_vars

\* parking requests on one garage, one at a time, with repository failures in
\* StartSession
SpecParkingFailures == InitTreasury /\ [][NextParkingFailures]_vars

\* calls on one Transaction
SpecTransaction == InitTreasury /\ [][NextTransaction]_vars

(***************************************************************************)
(* Properties of domain.Account (SpecAccount)                              *)
(***************************************************************************)

\* C1: starting from a newly created account, the balance is >= 0 after any
\* sequence of Deposit and Withdraw calls that all returned no error.
C1_BalanceNeverNegative == allOk => acct.Balance >= 0

\* C2: Withdraw(amount) on an active account with balance B returns
\* InsufficientFunds exactly when amount > B, and a Withdraw that returns an
\* error leaves the balance as it was.
C2_WithdrawInsufficientIff ==
    [][\A amount \in Amounts :
          CallWithdraw(amount) =>
             /\ acct.Status = AccountStatusActive =>
                   ((acctRet'.err = ErrInsufficientFunds) <=> (amount > acct.Balance))
             /\ acctRet'.err # Nil => acct'.Balance = acct.Balance]_vars

\* C2 witness: a Withdraw on an active account with a positive balance was
\* refused for insufficient funds.
C2_Witness ==
    /\ acctRet.op = "Withdraw"
    /\ acctRet.err = ErrInsufficientFunds
    /\ acct.Status = AccountStatusActive
    /\ acct.Balance > 0
    /\ acctRet.amount > acct.Balance

\* C5: Deposit and Withdraw on an account that is not active fail with
\* AccountClosed and leave the balance unchanged; Deposit on an active account
\* succeeds and adds amount to the balance.
C5_InactiveRejectedActiveDeposits ==
    [][\A amount \in Amounts :
          /\ CallDeposit(amount) =>
                IF acct.Status # AccountStatusActive
                THEN acctRet'.err = ErrAccountClosed /\ acct'.Balance = acct.Balance
                ELSE acctRet'.err = Nil /\ acct'.Balance = acct.Balance + amount
          /\ (CallWithdraw(amount) /\ acct.Status # AccountStatusActive) =>
                (acctRet'.err = ErrAccountClosed /\ acct'.Balance = acct.Balance)]_vars

\* C5 witness: a Deposit on a closed account holding money was refused.
C5_Witness ==
    /\ acctRet.op = "Deposit"
    /\ acctRet.err = ErrAccountClosed
    /\ acct.Status = AccountStatusClosed
    /\ acct.Balance > 0

(***************************************************************************)
(* Properties of accountService (Spec)                                     *)
(***************************************************************************)
Stored(id) == id \in DOMAIN accounts

StoredActive(id) == Stored(id) /\ accounts[id].Status = AccountStatusActive

\* no repository call of the request returned an error
RepositoryOk(r) == r.err \notin {ErrGetByID, ErrCreate, ErrUpdate}

\* C3: Transfer(A, B, amount) between two distinct active accounts with
\* A.balance >= amount and every repository call succeeding takes exactly
\* amount off A's stored balance, adds exactly amount to B's, and produces
\* exactly one Transaction, of type transfer, with source A and target B.
C3_TransferMovesAmount ==
    [][LET s == ret'.id
           t == ret'.target
           amount == ret'.amount
       IN
       (/\ ret'.op = "Transfer"
        /\ s # t
        /\ StoredActive(s)
        /\ StoredActive(t)
        /\ accounts[s].Balance >= amount
        /\ RepositoryOk(ret'))
       =>
       /\ accounts'[s].Balance = accounts[s].Balance - amount
       /\ accounts'[t].Balance = accounts[t].Balance + amount
       /\ Cardinality(ret'.txs) = 1
       /\ \A tx \in ret'.txs :
             /\ tx.Type = TransactionTypeTransfer
             /\ tx.SourceAccountID = s
             /\ tx.TargetAccountID = t
             /\ tx.Amount = amount]_vars

\* C3 witness: a transfer of a positive amount from A to B, smaller than A's
\* balance, went through and returned its transaction.
C3_Witness ==
    /\ ret.op = "Transfer"
    /\ ret.id = "A"
    /\ ret.target = "B"
    /\ ret.amount > 0
    /\ Cardinality(ret.txs) = 1
    /\ accounts["A"].Balance > 0
    /\ accounts["B"].Balance >= ret.amount

\* C4: Transfer is atomic across the two accounts: whatever it returns, either
\* both stored balances reflect the movement or neither does, so the sum of the
\* two stored balances is what it was before the call.
C4_TransferAtomic ==
    [][LET s == ret'.id
           t == ret'.target
           amount == ret'.amount
       IN
       (ret'.op = "Transfer" /\ s # t /\ Stored(s) /\ Stored(t) /\ amount > 0)
       =>
       /\ \/ /\ accounts'[s].Balance = accounts[s].Balance
             /\ accounts'[t].Balance = accounts[t].Balance
          \/ /\ accounts'[s].Balance = accounts[s].Balance - amount
             /\ accounts'[t].Balance = accounts[t].Balance + amount
       /\ accounts'[s].Balance + accounts'[t].Balance
             = accounts[s].Balance + accounts[t].Balance]_vars

\* C6: Transfer fails with AccountClosed when the source or the target account
\* is not active (unless loading an account already failed), and then writes
\* nothing: both stored accounts are unchanged.
C6_TransferRejectsInactive ==
    [][LET s == ret'.id
           t == ret'.target
       IN
       (/\ ret'.op = "Transfer"
        /\ Stored(s)
        /\ Stored(t)
        /\ ~(StoredActive(s) /\ StoredActive(t)))
       =>
       /\ accounts' = accounts
       /\ ret'.txs = NoTransactions
       /\ ret'.err \in {ErrAccountClosed, ErrGetByID}]_vars

\* C6 witness: a transfer from an active account holding money to a closed
\* account was refused with AccountClosed.
C6_Witness ==
    /\ ret.op = "Transfer"
    /\ ret.err = ErrAccountClosed
    /\ StoredActive(ret.id)
    /\ accounts[ret.id].Balance >= ret.amount
    /\ ret.amount > 0
    /\ Stored(ret.target)
    /\ accounts[ret.target].Status = AccountStatusClosed

\* C7: Deposit (Withdraw) on an active account, every repository call
\* succeeding, returns without error one completed Transaction of type deposit
\* (withdrawal) for that account and amount, and that Transaction is stored in
\* the transaction repository.
C7_DepositReturnsStoredTransaction ==
    [][LET id == ret'.id
           amount == ret'.amount
           txType == IF ret'.op = "Deposit" THEN TransactionTypeDeposit
                     ELSE TransactionTypeWithdrawal
           tx == Complete(NewTransaction(txType, id, amount))
       IN
       (/\ ret'.op \in {"Deposit", "Withdraw"}
        /\ StoredActive(id)
        /\ amount > 0
        /\ ret'.op = "Withdraw" => accounts[id].Balance >= amount
        /\ RepositoryOk(ret'))
       =>
       /\ ret'.err = Nil
       /\ ret'.txs = {tx}
       /\ tx \in transactions']_vars

(***************************************************************************)
(* Properties of taxPaymentService (SpecPay, SpecPayNoFailure)             *)
(***************************************************************************)
RECURSIVE SumAmounts(_, _)
SumAmounts(ps, ids) ==
    IF ids = {}
    THEN 0
    ELSE LET id == CHOOSE i \in ids : TRUE IN
         ps[id].Amount + SumAmounts(ps, ids \ {id})

\* the payments linked to filing f whose status is completed
CompletedFor(ps, f) ==
    {id \in DOMAIN ps : ps[id].FilingID = f /\ ps[id].Status = PaymentStatusCompleted}

\* C8: with requests run one at a time and every repository call succeeding,
\* each filing's stored TaxPaid equals the sum of the amounts of the completed
\* payments linked to it.
C8_TaxPaidIsSumOfCompleted ==
    \A f \in DOMAIN filings :
        filings[f].TaxPaid = SumAmounts(payments, CompletedFor(payments, f))

\* C9: with every repository call succeeding, ProcessTaxPayment on a payment
\* linked to filing F adds the payment amount to F's stored TaxPaid,
\* RefundTaxPayment on a completed payment linked to F takes it off, floored at
\* 0, and a payment with no filing reference changes no filing.
C9_ProcessAddsRefundSubtracts ==
    [][LET id == payRet'.id IN
       /\ (/\ payRet'.op = "ProcessTaxPayment"
           /\ id \in DOMAIN payments
           /\ ProcessTaxPayment(id, 0)) =>
             LET f == payments[id].FilingID IN
             IF f = NoFiling
             THEN filings' = filings
             ELSE /\ filings'[f].TaxPaid = filings[f].TaxPaid + payments[id].Amount
                  /\ \A g \in DOMAIN filings \ {f} : filings'[g] = filings[g]
       /\ (/\ payRet'.op = "RefundTaxPayment"
           /\ id \in DOMAIN payments
           /\ payments[id].Status = PaymentStatusCompleted
           /\ RefundTaxPayment(id, 0)) =>
             LET f == payments[id].FilingID
                 d == IF f = NoFiling THEN 0
                      ELSE filings[f].TaxPaid - payments[id].Amount
             IN
             IF f = NoFiling
             THEN filings' = filings
             ELSE /\ filings'[f].TaxPaid = (IF d < 0 THEN 0 ELSE d)
                  /\ \A g \in DOMAIN filings \ {f} : filings'[g] = filings[g]]_vars

\* C9 witness: a completed payment linked to a filing was refunded while
\* another payment of that filing stays completed, and the filing's TaxPaid
\* has come down to 0.
C9_Witness ==
    /\ payRet.op = "RefundTaxPayment"
    /\ payRet.err = Nil
    /\ payments[payRet.id].Status = PaymentStatusRefunded
    /\ payments[payRet.id].FilingID # NoFiling
    /\ filings[payments[payRet.id].FilingID].TaxPaid = 0
    /\ CompletedFor(payments, payments[payRet.id].FilingID) # {}

PaymentTransitions ==
    {<<PaymentStatusPending, PaymentStatusCompleted>>,
     <<PaymentStatusPending, PaymentStatusFailed>>,
     <<PaymentStatusPending, PaymentStatusVoided>>,
     <<PaymentStatusCompleted, PaymentStatusRefunded>>}

\* C10: a payment's status changes only along pending->completed,
\* pending->failed, pending->voided and completed->refunded.
C10_PaymentStatusTransitions ==
    [][\A id \in DOMAIN payments :
          payments'[id].Status # payments[id].Status =>
             <<payments[id].Status, payments'[id].Status>> \in PaymentTransitions]_vars

(***************************************************************************)
(* Properties of domain.TaxPayment (SpecTaxPayment)                        *)
(***************************************************************************)
\* C11: Refund succeeds only on a completed payment and Void only on a pending
\* payment; called in any other status each returns an error and leaves the
\* payment (status, notes, refundedAt, amount) as it was.
C11_RefundVoidGuarded ==
    [][/\ taxPaymentRet'.op = "Refund" =>
             /\ taxPaymentRet'.err = Nil => taxPayment.Status = PaymentStatusCompleted
             /\ taxPayment.Status # PaymentStatusCompleted =>
                   /\ taxPaymentRet'.err # Nil
                   /\ taxPayment' = taxPayment
       /\ taxPaymentRet'.op = "Void" =>
             /\ taxPaymentRet'.err = Nil => taxPayment.Status = PaymentStatusPending
             /\ taxPayment.Status # PaymentStatusPending =>
                   /\ taxPaymentRet'.err # Nil
                   /\ taxPayment' = taxPayment]_vars

\* C11 witness: Refund was refused on a pending payment that already carries a
\* note.
C11_Witness ==
    /\ taxPaymentRet.op = "Refund"
    /\ taxPaymentRet.err = ErrOnlyCompletedRefunded
    /\ taxPayment.Status # PaymentStatusCompleted
    /\ taxPayment.Notes # <<>>

\* C12: a TaxPayment's amount is > 0 in every state and changes only through
\* UpdateAmount on a pending payment; NewTaxPayment and UpdateAmount (on a
\* pending payment) reject amount <= 0 with InvalidPaymentAmount, and
\* UpdateAmount on a non-pending payment fails and leaves the amount unchanged.
C12_AmountPositive ==
    /\ [](taxPayment.Amount > 0)
    /\ [][LET op == taxPaymentRet'.op
              amount == taxPaymentRet'.amount
          IN
          /\ (op # "NewTaxPayment" /\ taxPayment'.Amount # taxPayment.Amount) =>
                /\ op = "UpdateAmount"
                /\ taxPayment.Status = PaymentStatusPending
                /\ taxPayment'.Amount = amount
          /\ (op = "NewTaxPayment" /\ amount <= 0) =>
                /\ taxPaymentRet'.err = ErrInvalidPaymentAmount
                /\ taxPayment' = taxPayment
          /\ (op = "UpdateAmount" /\ taxPayment.Status = PaymentStatusPending
                                  /\ amount <= 0) =>
                /\ taxPaymentRet'.err = ErrInvalidPaymentAmount
                /\ taxPayment' = taxPayment
          /\ (op = "UpdateAmount" /\ taxPayment.Status # PaymentStatusPending) =>
                /\ taxPaymentRet'.err # Nil
                /\ taxPayment'.Amount = taxPayment.Amount]_vars

\* C12 witness: UpdateAmount with amount 0 was rejected on a pending payment.
C12_Witness ==
    /\ taxPaymentRet.op = "UpdateAmount"
    /\ taxPaymentRet.amount <= 0
    /\ taxPaymentRet.err = ErrInvalidPaymentAmount
    /\ taxPayment.Status = PaymentStatusPending

(***************************************************************************)
(* Properties of taxFilingService and domain.TaxFiling (SpecFiling)        *)
(***************************************************************************)
FilingStored(id) == id \in DOMAIN filings

\* C13: SubmitFiling succeeds only on a draft filing; on a filing in any other
\* status it fails with InvalidFilingStatus and the stored filing, its status
\* and submissionDate included, stays as it was.
C13_SubmitOnlyFromDraft ==
    [][LET id == payRet'.id IN
       (payRet'.op = "SubmitTaxFiling" /\ FilingStored(id)) =>
          /\ payRet'.err = Nil =>
                /\ filings[id].Status = FilingStatusDraft
                /\ filings'[id].Status = FilingStatusSubmitted
                /\ filings'[id].SubmissionDate \in Times
          /\ filings[id].Status # FilingStatusDraft =>
                /\ payRet'.err \in {ErrInvalidFilingStatus, ErrGetByID}
                /\ filings'[id].Status = filings[id].Status
                /\ filings'[id].SubmissionDate = filings[id].SubmissionDate
                /\ filings' = filings]_vars

\* C13 witness: a second SubmitTaxFiling on a submitted filing was refused.
C13_Witness ==
    /\ payRet.op = "SubmitTaxFiling"
    /\ payRet.err = ErrInvalidFilingStatus
    /\ FilingStored(payRet.id)
    /\ filings[payRet.id].Status = FilingStatusSubmitted
    /\ filings[payRet.id].SubmissionDate # NoDate

\* C14: AcceptFiling and RejectFiling succeed only on a submitted or processing
\* filing; from any other status they fail with InvalidFilingStatus and leave
\* status, acceptanceDate and notes as they were.
C14_AcceptRejectGuarded ==
    [][LET id == payRet'.id IN
       (payRet'.op \in {"AcceptTaxFiling", "RejectTaxFiling"} /\ FilingStored(id)) =>
          /\ payRet'.err = Nil =>
                filings[id].Status \in {FilingStatusSubmitted, FilingStatusProcessing}
          /\ filings[id].Status \notin {FilingStatusSubmitted, FilingStatusProcessing} =>
                /\ payRet'.err \in {ErrInvalidFilingStatus, ErrGetByID}
                /\ filings'[id].Status = filings[id].Status
                /\ filings'[id].AcceptanceDate = filings[id].AcceptanceDate
                /\ filings'[id].Notes = filings[id].Notes]_vars

\* C14 witness: AcceptTaxFiling was refused on a rejected filing that carries
\* its rejection note.
C14_Witness ==
    /\ payRet.op = "AcceptTaxFiling"
    /\ payRet.err = ErrInvalidFilingStatus
    /\ FilingStored(payRet.id)
    /\ filings[payRet.id].Status = FilingStatusRejected
    /\ filings[payRet.id].Notes # <<>>
    /\ filings[payRet.id].AcceptanceDate = NoDate

FilingTransitions ==
    {<<FilingStatusDraft, FilingStatusSubmitted>>,
     <<FilingStatusSubmitted, FilingStatusProcessing>>,
     <<FilingStatusSubmitted, FilingStatusAccepted>>,
     <<FilingStatusSubmitted, FilingStatusRejected>>,
     <<FilingStatusProcessing, FilingStatusAccepted>>,
     <<FilingStatusProcessing, FilingStatusRejected>>}

\* C15: the status of a stored filing changes only along draft->submitted,
\* submitted->processing and submitted|processing->accepted|rejected, so an
\* accepted or rejected filing keeps its status; and an accepted filing has
\* been submitted.
C15_FilingLifecycle ==
    /\ [](\A id \in DOMAIN filings :
             filings[id].Status = FilingStatusAccepted =>
                filings[id].SubmissionDate # NoDate)
    /\ [][\A id \in DOMAIN filings :
             /\ id \in DOMAIN filings'
             /\ filings'[id].Status # filings[id].Status =>
                   <<filings[id].Status, filings'[id].Status>> \in FilingTransitions]_vars

\* C15 witness: a filing that went through processing has been accepted.
C15_Witness ==
    /\ payRet.op = "AcceptTaxFiling"
    /\ payRet.err = Nil
    /\ FilingStored(payRet.id)
    /\ filings[payRet.id].Status = FilingStatusAccepted
    /\ filings[payRet.id].TaxCalculated > 0

AmountFields(tf) ==
    <<tf.GrossIncome, tf.TaxableIncome, tf.TotalSales, tf.TaxableAmount,
      tf.Deductions, tf.Credits>>

\* C16: the amounts, deductions and credits of a stored filing change only
\* through UpdateTaxFilingAmounts, AddDeduction and AddCredit on that filing
\* while it is a draft; on a non-draft filing these three fail with
\* InvalidFilingStatus and write nothing.
C16_AmountsOnlyInDraft ==
    [][/\ \A id \in DOMAIN filings :
             AmountFields(filings'[id]) # AmountFields(filings[id]) =>
                /\ filings[id].Status = FilingStatusDraft
                /\ payRet'.id = id
                /\ payRet'.op \in {"UpdateTaxFilingAmounts", "AddDeduction", "AddCredit"}
       /\ LET id == payRet'.id IN
          (/\ payRet'.op \in {"UpdateTaxFilingAmounts", "AddDeduction", "AddCredit"}
           /\ FilingStored(id)
           /\ filings[id].Status # FilingStatusDraft) =>
             /\ payRet'.err \in {ErrInvalidFilingStatus, ErrGetByID}
             /\ filings' = filings]_vars

\* C16 witness: AddDeduction was refused on a submitted filing that holds a
\* deduction added while it was a draft.
C16_Witness ==
    /\ payRet.op = "AddDeduction"
    /\ payRet.err = ErrInvalidFilingStatus
    /\ FilingStored(payRet.id)
    /\ filings[payRet.id].Status = FilingStatusSubmitted
    /\ filings[payRet.id].Deductions # <<>>

(***************************************************************************)
(* Properties of TaxFiling.AmendFiling (SpecAmend)                         *)
(***************************************************************************)
\* C17: AmendFiling gives a new filing with a fresh identity, status amended,
\* cleared submission and acceptance dates and notes naming the original's
\* identity, and leaves the original as it was; after that, a call on one of
\* the two filings leaves everything a reader sees of the other one (status,
\* dates, notes, deductions, credits) as it was.
C17_AmendIndependent ==
    [][/\ memRet'.op = "AmendFiling" =>
             /\ mem'["amended"].ID # mem["original"].ID
             /\ mem'["amended"].Status = FilingStatusAmended
             /\ mem'["amended"].SubmissionDate = NoDate
             /\ mem'["amended"].AcceptanceDate = NoDate
             /\ mem'["amended"].Notes
                   = <<<<"Amended from filing ID", mem["original"].ID>>>>
             /\ FilingView(heap', mem'["original"]) = FilingView(heap, mem["original"])
       /\ (memRet'.op # "AmendFiling" /\ "amended" \in DOMAIN mem) =>
             \A n \in DOMAIN mem \ {memRet'.on} :
                FilingView(heap', mem'[n]) = FilingView(heap, mem[n])]_vars

(***************************************************************************)
(* Properties of domain.TaxRate (SpecTaxRate)                              *)
(***************************************************************************)
\* the rate held is progressive with 0 < MinAmount < MaxAmount
ProgressiveBracket ==
    /\ taxRate.BracketType = TaxBracketProgressive
    /\ 0 < taxRate.MinAmount
    /\ taxRate.MinAmount < taxRate.MaxAmount

\* C18: on a progressive rate with 0 < MinAmount < MaxAmount, CalculateTax
\* of an amount above MaxAmount returns (MaxAmount - MinAmount) x rate,
\* truncated toward zero.
C18_ProgressiveCappedAboveMax ==
    [][(/\ taxRateRet'.op = "CalculateTax"
        /\ ProgressiveBracket
        /\ taxRateRet'.amount > taxRate.MaxAmount)
          => taxRateRet'.tax =
                Int64OfProduct(taxRate.MaxAmount - taxRate.MinAmount, taxRate.Rate)]_vars

\* C19: on a progressive rate with 0 < MinAmount < MaxAmount, CalculateTax
\* returns 0 for an amount below MinAmount and (amount - MinAmount) x rate,
\* truncated toward zero, for an amount from MinAmount to MaxAmount.
C19_ProgressiveWithinBracket ==
    [][(taxRateRet'.op = "CalculateTax" /\ ProgressiveBracket) =>
          /\ taxRateRet'.amount < taxRate.MinAmount => taxRateRet'.tax = 0
          /\ (/\ taxRate.MinAmount <= taxRateRet'.amount
              /\ taxRateRet'.amount <= taxRate.MaxAmount)
                => taxRateRet'.tax =
                      Int64OfProduct(taxRateRet'.amount - taxRate.MinAmount,
                                     taxRate.Rate)]_vars

\* CalculateTax(3) = 1 on the progressive rate of three quarters on 1..3:
\* the part above MinAmount is 2, and one and a half is truncated to 1
C19_Witness ==
    /\ taxRateRet.op = "CalculateTax"
    /\ ProgressiveBracket
    /\ taxRate.Rate = 3
    /\ taxRate.MinAmount = 1
    /\ taxRateRet.amount = 3
    /\ taxRateRet.tax = 1

\* C20: a tiered rate is calculated as the flat rate of the same Rate,
\* whatever MinAmount and MaxAmount are: CalculateTax returns amount x rate,
\* truncated.
C20_TieredAsFlat ==
    [][(taxRateRet'.op = "CalculateTax" /\ taxRate.BracketType = TaxBracketTiered) =>
          /\ taxRateRet'.tax =
                CalculateTax([taxRate EXCEPT !.BracketType = TaxBracketFlat],
                             taxRateRet'.amount)
          /\ taxRateRet'.tax = Int64OfProduct(taxRateRet'.amount, taxRate.Rate)]_vars

(***************************************************************************)
(* Properties of domain.Transaction (SpecTransaction)                      *)
(***************************************************************************)
TransactionTerminal ==
    {TransactionStatusCompleted, TransactionStatusFailed, TransactionStatusReversed}

\* C21: a Transaction is created pending and changes status at most once:
\* once it is completed, failed or reversed, no later Complete, Fail or
\* Reverse changes its status; and no call on it changes its amount.
C21_TransactionStatusOnce ==
    [][/\ transactionRet'.op = "NewTransaction"
            => transaction'.Status = TransactionStatusPending
       /\ (/\ transactionRet'.op \in {"Complete", "Fail", "Reverse"}
           /\ transaction.Status \in TransactionTerminal)
            => transaction'.Status = transaction.Status
       /\ transactionRet'.op # "NewTransaction"
            => transaction'.Amount = transaction.Amount]_vars

(***************************************************************************)
(* Properties of accountService with the Name and ClosedAt columns         *)
(* (SpecAccountDetails)                                                    *)
(***************************************************************************)
StoredClosed(id) ==
    id \in DOMAIN accounts /\ accounts[id].Status = AccountStatusClosed

\* C22: closed is terminal: once an account is stored as closed, no
\* AccountService request (UpdateAccount, CloseAccount, Deposit, Withdraw,
\* Transfer) changes its stored status, balance or name.
C22_ClosedIsTerminal ==
    [][\A id \in AccountIDs :
          StoredClosed(id) =>
             /\ accounts'[id].Status = AccountStatusClosed
             /\ accounts'[id].Balance = accounts[id].Balance
             /\ accountDetails'[id].Name = accountDetails[id].Name]_vars

\* UpdateAccount was refused on a closed account that holds money
C22_Witness ==
    /\ ret.op = "UpdateAccount"
    /\ ret.err = ErrAccountClosed
    /\ StoredClosed(ret.id)
    /\ accounts[ret.id].Balance > 0

\* C23: CloseAccount on an account stored as closed fails, with
\* ErrAccountClosed unless the read of the row itself failed, and leaves the
\* stored account unchanged, ClosedAt included: ClosedAt is assigned at most
\* once.
C23_CloseOnlyOnce ==
    [][/\ (ret'.op = "CloseAccount" /\ StoredClosed(ret'.id)) =>
             /\ ret'.err \in {ErrAccountClosed, ErrGetByID}
             /\ accounts'[ret'.id] = accounts[ret'.id]
             /\ accountDetails'[ret'.id] = accountDetails[ret'.id]
       /\ \A id \in DOMAIN accountDetails :
             accountDetails[id].ClosedAt # NoTime =>
                accountDetails'[id].ClosedAt = accountDetails[id].ClosedAt]_vars

\* CloseAccount was refused on an account closed at time 1
C23_Witness ==
    /\ ret.op = "CloseAccount"
    /\ ret.err = ErrAccountClosed
    /\ StoredClosed(ret.id)
    /\ accountDetails[ret.id].ClosedAt = 1

(***************************************************************************)
(* Transfer and its failures (Spec)                                        *)
(***************************************************************************)
\* the state in which source.Withdraw(amount) succeeds and target.Deposit
\* fails: the source active with the funds, the target not active
WithdrawOkDepositFails(s, t, amount) ==
    /\ s # t
    /\ StoredActive(s)
    /\ accounts[s].Balance >= amount
    /\ Stored(t)
    /\ accounts[t].Status # AccountStatusActive

C25_PeriodEndAfterStart ==
    [][(/\ payRet'.op = "CreateTaxFiling"
        /\ payRet'.periodEnd <= payRet'.periodStart)
          => /\ payRet'.err = ErrInvalidFilingPeriod
             /\ filings' = filings]_vars

(***************************************************************************)
(* The bracket of a new TaxRate (SpecTaxRate)                              *)
(***************************************************************************)
\* C26: every TaxRate created with a progressive bracket and both
\* MinAmount and MaxAmount set (not 0) has MaxAmount > MinAmount: NewTaxRate
\* rejects a request that violates this.
C26_ProgressiveMaxAboveMin ==
    (/\ taxRate.BracketType = TaxBracketProgressive
     /\ taxRate.MinAmount # 0
     /\ taxRate.MaxAmount # 0)
       => taxRate.MaxAmount > taxRate.MinAmount

(***************************************************************************)
(* The status of stored tax rates (SpecTaxRates)                           *)
(***************************************************************************)
\* the place of a status on proposed -> active -> inactive -> archived
StatusRank(status) ==
    CASE status = TaxStatusProposed -> 1
      [] status = TaxStatusActive   -> 2
      [] status = TaxStatusInactive -> 3
      [] status = TaxStatusArchived -> 4

\* C27: a TaxRate starts as proposed and its status moves only forward
\* along proposed -> active -> inactive -> archived; once it is archived no
\* TaxRateService request (Activate, Deactivate, Archive, Update) changes
\* its status.
C27_TaxRateStatusForward ==
    [][LET id == taxRatesRet'.id IN
       /\ (taxRatesRet'.op = "CreateTaxRate" /\ taxRatesRet'.err = Nil)
             => taxRates'[id].Status = TaxStatusProposed
       /\ (taxRatesRet'.op # "CreateTaxRate" /\ id \in DOMAIN taxRates)
             => /\ StatusRank(taxRates'[id].Status) >= StatusRank(taxRates[id].Status)
                /\ taxRates[id].Status = TaxStatusArchived
                      => taxRates'[id].Status = TaxStatusArchived]_vars

(***************************************************************************)
(* The exemption codes of a Taxpayer (SpecTaxpayer)                        *)
(***************************************************************************)
\* C28: the exemption codes behave as a set: from a list without
\* duplicates, after any AddExemption and RemoveExemption calls the list
\* holds no code twice, HasExemption(c) is true exactly when c was there at
\* the start or added and not removed since, what HasExemption returns is
\* that, and AddExemption of a code already there changes nothing.
C28_ExemptionsAreASet ==
    /\ [](/\ DuplicateFree(taxpayer.ExemptionCodes)
          /\ \A c \in ExemptionCodes : HasExemption(taxpayer, c) <=> c \in granted
          /\ taxpayerRet.op = "HasExemption"
                => (taxpayerRet.has <=> taxpayerRet.code \in granted))
    /\ [][(/\ taxpayerRet'.op = "AddExemption"
           /\ taxpayerRet'.code \in granted)
             => taxpayer' = taxpayer]_vars

\* the first of three codes was removed, which moved the last one into its
\* place
C28_Witness ==
    /\ taxpayerRet.op = "RemoveExemption"
    /\ taxpayerRet.code = "VET"
    /\ taxpayerRet.has
    /\ taxpayer.ExemptionCodes = <<"NPO", "EDU">>
    /\ granted = {"NPO", "EDU"}

(***************************************************************************)
(* Concurrent deposits (SpecDeposits)                                      *)
(***************************************************************************)
\* the Deposit of client c has written its row and returned
Persisted(c) ==
    deposits[c].pc = "done" /\ deposits[c].err = ErrTxRepoNotImplemented

\* the balance the Deposit of client c read
BalanceRead(c) == deposits[c].account.Balance - deposits[c].amount

\* both calls persisted a deposit to the same account from the same balance
SameRead ==
    /\ Persisted(1)
    /\ Persisted(2)
    /\ deposits[1].id = deposits[2].id
    /\ BalanceRead(1) = BalanceRead(2)

\* C29: two concurrent Deposit calls on one account can lose an update:
\* whenever both have read the same balance and both have persisted, the
\* stored balance is that balance plus the amount of one of them only.
C29_ConcurrentDepositLosesUpdate ==
    SameRead =>
       \E c \in Clients :
          accounts[deposits[c].id].Balance = BalanceRead(c) + deposits[c].amount

\* both calls persisted, 1 and 2 deposited on a balance of 0, and the
\* account holds 1
C29_Witness ==
    /\ SameRead
    /\ BalanceRead(1) = 0
    /\ deposits[1].amount = 1
    /\ deposits[2].amount = 2
    /\ accounts[deposits[1].id].Balance = 1

(***************************************************************************)
(* Completing a payment again (SpecPayNoFailure)                           *)
(***************************************************************************)
\* C30: ProcessTaxPayment has no guard on the payment's status: on a stored
\* payment in any status, completed included, it succeeds, leaves the payment
\* completed, and adds the payment's amount to the TaxPaid of the filing the
\* payment is linked to, once more each time.
C30_ProcessIsNotGuarded ==
    [][LET id == payRet'.id IN
       (/\ payRet'.op = "ProcessTaxPayment"
        /\ id \in DOMAIN payments) =>
          /\ payRet'.err = Nil
          /\ payments'[id] = [payments[id] EXCEPT !.Status = PaymentStatusCompleted]
          /\ LET f == payments[id].FilingID IN
             f # NoFiling =>
                filings'[f].TaxPaid = filings[f].TaxPaid + payments[id].Amount]_vars

\* the only payment there is, of 1 and linked to F1, has just been processed,
\* and F1 counts 2 as paid
C30_Witness ==
    /\ payRet.op = "ProcessTaxPayment"
    /\ payRet.err = Nil
    /\ DOMAIN payments = {"P1"}
    /\ payments["P1"].Amount = 1
    /\ payments["P1"].FilingID = "F1"
    /\ payments["P1"].Status = PaymentStatusCompleted
    /\ filings["F1"].TaxPaid = 2

(***************************************************************************)
(* Failures of the filing's repository during reconciliation (SpecPay)     *)
(***************************************************************************)
\* the payment of the request just made is stored, linked to a filing, and
\* the request is the given one with its k-th repository call failing
LinkedRequestFailing(op, k) ==
    LET id == payRet'.id IN
    /\ payRet'.op = op
    /\ id \in DOMAIN payments
    /\ payments[id].FilingID # NoFiling
    /\ IF op = "ProcessTaxPayment"
       THEN ProcessTaxPayment(id, k)
       ELSE payments[id].Status = PaymentStatusCompleted /\ RefundTaxPayment(id, k)

\* C31: in ProcessTaxPayment and RefundTaxPayment on a payment linked to a
\* filing, a failing GetByID or Update of the filing is not returned: the call
\* returns no error, the payment stays stored as completed or refunded and the
\* filing's TaxPaid stays what it was; a failing Update of the payment is
\* returned and leaves both stores as they were.
C31_ReconciliationFailureSwallowed ==
    [][LET id == payRet'.id IN
       \A op \in {"ProcessTaxPayment", "RefundTaxPayment"} :
          /\ \A k \in {3, 4} :
                LinkedRequestFailing(op, k) =>
                   /\ payRet'.err = Nil
                   /\ payments'[id].Status =
                         (IF op = "ProcessTaxPayment" THEN PaymentStatusCompleted
                                                      ELSE PaymentStatusRefunded)
                   /\ filings' = filings
          /\ LinkedRequestFailing(op, 2) =>
                /\ payRet'.err = ErrUpdate
                /\ payments' = payments
                /\ filings' = filings]_vars

\* the only payment there is, of 1 and linked to F1, has just been processed
\* without error, and F1 counts nothing as paid
C31_Witness ==
    /\ payRet.op = "ProcessTaxPayment"
    /\ payRet.err = Nil
    /\ DOMAIN payments = {"P1"}
    /\ payments["P1"].Amount = 1
    /\ payments["P1"].FilingID = "F1"
    /\ payments["P1"].Status = PaymentStatusCompleted
    /\ filings["F1"].TaxPaid = 0

(***************************************************************************)
(* Concurrent deposits and withdrawals (SpecTellers, SpecConcurrent)       *)
(***************************************************************************)
\* C32: with Deposit and Withdraw calls on an account interleaved, the
\* amounts of the withdrawals persisted never add up to more than the opening
\* balance (0, the balance of a new account) plus the amounts of the deposits
\* persisted.
C32_NoOverdraw ==
    \A id \in AccountIDs : tally[id].withdrawn <= 0 + tally[id].deposited

\* C33: with Deposit, Withdraw and Transfer calls of positive amounts
\* interleaved, every stored balance is at least 0 in every reachable state.
C33_BalanceNeverNegative ==
    \A id \in DOMAIN accounts : accounts[id].Balance >= 0

\* client 1 is about to write a balance of 0 to A after withdrawing 1 from the
\* 1 it read, while the Transfer of client 2 has already taken that 1 from A
\* and has B left to write
C33_Witness ==
    /\ calls[1] = Request("read", "Withdraw", "A", NoAccount, 1,
                          [NewAccount EXCEPT !.Balance = 0], NewAccount)
    /\ calls[2].pc = "half"
    /\ calls[2].id = "A"
    /\ calls[2].target = "B"
    /\ calls[2].amount = 1
    /\ accounts["A"].Balance = 0

(***************************************************************************)
(* Transfer from an account to itself (Spec)                               *)
(***************************************************************************)
\* C34: a Transfer whose source and target are the same account, and which
\* made both its Updates, leaves the stored balance of that account what it
\* was before the call.
C34_TransferToSelfKeepsBalance ==
    [][(/\ ret'.op = "Transfer"
        /\ ret'.id = ret'.target
        /\ ret'.err = ErrTxRepoNotImplemented)
          => accounts'[ret'.id].Balance = accounts[ret'.id].Balance]_vars

(***************************************************************************)
(* CreateTransaction and the account balance (SpecLedger)                  *)
(***************************************************************************)
\* the balance of the account after the transaction's amount is applied
BalanceWith(t, balance) ==
    IF t.Type = TransactionTypeDeposit THEN balance + t.Amount
    ELSE IF t.Type = TransactionTypeWithdrawal THEN balance - t.Amount
    ELSE balance

\* C35: whatever repository calls fail, a transaction CreateTransaction
\* stores as completed has its amount in the stored balance of its account,
\* and a transaction it leaves stored as pending or failed has not.
C35_StoredStatusMatchesBalance ==
    [][LET id == ledgerRet'.id IN
       (/\ ledgerRet'.op = "CreateTransaction"
        /\ id \in DOMAIN ledger' \ DOMAIN ledger) =>
          LET t == ledger'[id]
              a == t.AccountID
          IN
          IF t.Status = TransactionStatusCompleted
          THEN accounts'[a].Balance = BalanceWith(t, accounts[a].Balance)
          ELSE accounts'[a].Balance = accounts[a].Balance]_vars

(***************************************************************************)
(* Amended filings (SpecAmended)                                           *)
(***************************************************************************)
\* the parts of a filing no request may change once it is amended
AmendedParts(tf) ==
    <<tf.Status, tf.GrossIncome, tf.TaxableIncome, tf.TotalSales, tf.TaxableAmount,
      tf.Deductions, tf.Credits>>

StatusRequests ==
    {"SubmitTaxFiling", "ProcessTaxFiling", "AcceptTaxFiling", "RejectTaxFiling",
     "UpdateTaxFilingAmounts", "AddDeduction", "AddCredit"}

\* C37: a stored filing with status amended keeps its status, its four
\* amounts, its deductions and its credits under every TaxFilingService
\* request; the seven requests that change a filing fail on it with
\* InvalidFilingStatus, and AmendTaxFiling on it stores one more filing,
\* amended as well.
C37_AmendedIsDeadEnd ==
    [][\A id \in DOMAIN filings :
          filings[id].Status = FilingStatusAmended =>
             /\ AmendedParts(filings'[id]) = AmendedParts(filings[id])
             /\ (payRet'.id = id /\ payRet'.op \in StatusRequests)
                   => payRet'.err = ErrInvalidFilingStatus
             /\ (payRet'.id = id /\ payRet'.op = "AmendTaxFiling" /\ payRet'.err = Nil)
                   => \E new \in DOMAIN filings' \ DOMAIN filings :
                         filings'[new].Status = FilingStatusAmended]_vars

\* F2, itself amended from F1, has been amended into F3
C37_Witness ==
    /\ payRet.op = "AmendTaxFiling"
    /\ payRet.id = "F2"
    /\ {"F2", "F3"} \subseteq DOMAIN filings
    /\ filings["F2"].Status = FilingStatusAmended
    /\ filings["F3"].Status = FilingStatusAmended
    /\ filings["F3"].Notes = <<<<"Amended from filing ID", "F2">>>>

(***************************************************************************)
(* Submission racing with changes of a draft (SpecFilingRace)              *)
(***************************************************************************)
\* the amounts, deductions and credits of a filing
FilingAmounts(tf) ==
    <<tf.GrossIncome, tf.TaxableIncome, tf.TotalSales, tf.TaxableAmount,
      tf.Deductions, tf.Credits>>

\* C36: with TaxFilingService calls on a filing interleaved, a filing stored
\* as submitted is not stored as draft afterwards, and its amounts,
\* deductions and credits stay what they were when it was submitted.
C36_SubmissionNotReverted ==
    [][\A id \in DOMAIN filings :
          filings[id].Status = FilingStatusSubmitted =>
             /\ filings'[id].Status # FilingStatusDraft
             /\ FilingAmounts(filings'[id]) = FilingAmounts(filings[id])]_vars

(***************************************************************************)
(* Garage spaces and parking sessions (SpecParking, SpecParkingFailures)   *)
(***************************************************************************)
\* the sessions of garage g stored as active
ActiveSessions(g) ==
    {s \in DOMAIN sessions :
        sessions[s].GarageID = g /\ sessions[s].Status = SessionStatusActive}

\* C38: with parking requests run one at a time and every repository call
\* succeeding, each garage's AvailableSpaces is its TotalSpaces less the
\* number of its active sessions, and so within 0..TotalSpaces; StartSession
\* on an operational garage with no space available fails with
\* ErrGarageCapacityFull, and EndSession or CancelSession on a session that
\* is not active fails and leaves the garages as they were.
C38_SpacesMatchActiveSessions ==
    /\ [](\A g \in DOMAIN garages :
             /\ garages[g].AvailableSpaces =
                   garages[g].TotalSpaces - Cardinality(ActiveSessions(g))
             /\ garages[g].AvailableSpaces \in 0..garages[g].TotalSpaces)
    /\ [][/\ (/\ parkRet'.op = "StartSession"
              /\ parkRet'.garage \in DOMAIN garages
              /\ IsOperational(garages[parkRet'.garage])
              /\ garages[parkRet'.garage].AvailableSpaces = 0)
                => parkRet'.err = ErrGarageCapacityFull
          /\ (/\ parkRet'.op \in {"EndSession", "CancelSession"}
              /\ parkRet'.id \in DOMAIN sessions
              /\ sessions[parkRet'.id].Status # SessionStatusActive)
                => /\ parkRet'.err = ErrSessionAlreadyEnded
                   /\ garages' = garages
                   /\ sessions' = sessions]_vars

\* G1 has 2 spaces and 1 available: of three sessions started in it, S1 has
\* been ended, S2 is active, and S3 has just been cancelled
C38_Witness ==
    /\ parkRet.op = "CancelSession"
    /\ parkRet.id = "S3"
    /\ parkRet.err = Nil
    /\ DOMAIN sessions = SessionIDs
    /\ \A s \in SessionIDs : sessions[s].GarageID = "G1"
    /\ sessions["S1"].Status = SessionStatusCompleted
    /\ sessions["S2"].Status = SessionStatusActive
    /\ sessions["S3"].Status = SessionStatusCancelled
    /\ garages["G1"].TotalSpaces = 2
    /\ garages["G1"].AvailableSpaces = 1

\* C39: after a StartSession that failed, the stored AvailableSpaces of the
\* garage it named is what it was before the call.
C39_FailedStartGivesSpaceBack ==
    [][(/\ parkRet'.op = "StartSession"
        /\ parkRet'.err # Nil
        /\ parkRet'.garage \in DOMAIN garages)
          => garages'[parkRet'.garage].AvailableSpaces
                = garages[parkRet'.garage].AvailableSpaces]_vars

====
